---- MODULE Spec2Model ----
(***************************************************************************)
(* Ledger aggregation and payout orchestration of AI-Hivemind.             *)
(*                                                                         *)
(* Three edge functions are modelled in full, each under its own           *)
(* specification:                                                          *)
(*   Spec     comprehensive-usd-aggregator (scan, pay out, zero, audit)     *)
(*   SpecA2S  aggregate_usd_to_stripe      (aggregate, bounded retry)       *)
(*   SpecCSI  comprehensive-stripe-integration (payout, compliance update)  *)
(* SpecScan, SpecTwoScans and SpecScenarioA run the first function on      *)
(* other datastores, SpecA2SLive adds fairness of the retry loop to        *)
(* SpecA2S, and SpecLedger covers both aggregators.                        *)
(* Further specifications model smaller functions:                         *)
(*   SpecPN   payout_now (amount resolution, minimum, payout, log)         *)
(*   SpecBW   the writers of a balance row (add_real_money of the treasury *)
(*            manager, the revenue aggregation of hyper-revenue-generator) *)
(*   SpecSch  automated-full-transfer-scheduler (gate, trigger, log)       *)
(*   SpecTM   the treasury manager (add_real_money, consolidate_all)       *)
(*   SpecPP   the production payout flow (calculate, pay out, mark, reset) *)
(*   SpecFix  the fix-failed-transfers workflow (select, retry, count)     *)
(*   SpecAK   ai-content-api (usage limit of an API key)                   *)
(*   SpecWP   RevenueWorkerManager (scaling a worker pool)                 *)
(*   SpecARE  autonomous-revenue-engine (payout of the Stripe balance)     *)
(* Money is counted in whole cents, the granularity of every amount the    *)
(* repository writes ($0.05, $0.10, payout amounts): a column value of     *)
(* $0.30 is 30, which is also what Math.round(0.30 * 100) hands to a       *)
(* processor.                                                              *)
(***************************************************************************)
EXTENDS Integers, Sequences, FiniteSets, TLC

\* ---------------------------------------------------------------- bounds
\* Invocations of comprehensive-usd-aggregator that may be in flight.
NumInv == 2
\* Invocations of aggregate_usd_to_stripe that may be in flight.
NumA2S == 2
\* Concurrent writers of a balance row.
NumWriters == 2
\* Invocations of the scheduler.
NumSch == 2
\* Treasury manager requests served one after the other.
MaxOps == 3
\* Writes of other functions during one production payout.
MaxArrivals == 1
\* Runs of the fix-failed-transfers workflow, one after the other.
MaxRuns == 5
\* Concurrent requests to ai-content-api under one API key.
NumRequests == 3
\* The largest max_workers of a worker pool.
MaxPool == 8
\* Invocations of autonomous-revenue-engine, one after the other.
MaxEngineRuns == 2

\* ------------------------------------------------------ program constants
\* transferAmount >= 0.50 (dollars), in cents.
STRIPE_MIN_CENTS == 50
\* comprehensive-stripe-integration: balance.total < 1 (dollar), in cents.
CSI_MIN_CENTS == 100
\* aggregate_usd_to_stripe: const MAX_RETRIES = 3.
MAX_RETRIES == 3
\* aggregate_usd_to_stripe: const INITIAL_DELAY = 1000.
INITIAL_DELAY == 1000

VARIABLES
  \* ---- datastore and environment of comprehensive-usd-aggregator
  rows,          \* the rows that exist: a set of <<table, id>>
  active,        \* the rows that match their table's filter
  ledger,        \* row -> balance column value: <<>> (null) or <<n>>
  ledger0,       \* the ledger as it was before any invocation (history)
  env,           \* which provider credentials Deno.env holds
  dbFaults,      \* whether datastore calls may fail in this run
  \* ---- one entry per invocation
  pc,            \* position in the handler
  scanIdx,       \* index into USD_BALANCE_TABLES of the next table to read
  sources,       \* aggregatedUSD.sources
  totalAmount,   \* aggregatedUSD.total_amount
  breakdown,     \* aggregatedUSD.breakdown, in insertion order
  scanErrors,    \* aggregatedUSD.scan_errors
  results,       \* transferResults
  stripeSeen,    \* the Stripe available balance read, -1 before it is read
  zeroPos,       \* <<source index, record index>> of the next update
  auditLog,      \* the in-memory audit trail
  response,      \* the HTTP response returned
  saved,         \* the status under which saveAuditLog stored the trail
  \* ---- what really happened, outside the invocation's own bookkeeping
  extPayouts,    \* payouts the processors created: seq of [inv, provider, amount]
  zeroed,        \* rows each invocation set to 0
  consumedValue, \* sum of the balances each invocation overwrote with 0
  \* ---- aggregate_usd_to_stripe
  a2sEnv,        \* "ok", or which environment variable is missing
  a2sLedger,     \* the five tables the function aggregates
  a2sLedger0,    \* those tables before any invocation (history)
  a2s,           \* one record per invocation: the handler's locals
  xferRows,      \* autonomous_revenue_transfers, oldest first
  xferLogs,      \* per invocation: the automated_transfer_logs statuses it wrote
  stripeXfers,   \* per invocation: the attempts at which Stripe created a transfer
  a2sErrs,       \* the errors stripe.transfers.create may throw in this run
  \* ---- comprehensive-stripe-integration
  csiKey,        \* whether STRIPE_SECRET_KEY is set
  csiTx,         \* autonomous_revenue_transactions rows
  csiApp,        \* application_balance rows: their balance_amount values
  csi,           \* the handler's locals
  csiPayouts,    \* payouts Stripe created: their amounts in cents
  csiLog,        \* autonomous_revenue_transfer_logs rows inserted
  csiMarked,     \* transactions this invocation marked 'transferred'
  csiZeroed,     \* whether this invocation set application_balance to 0
  \* ---- payout_now
  pn,            \* the handler's locals
  pnLog,         \* the automated_transfer_logs rows it inserted
  pnPayouts,     \* payouts Stripe created: their amounts in cents
  \* ---- the writers of balance rows (treasury manager, hyper-revenue-generator)
  bw,            \* per writer: its function, amount and position
  bwStore,       \* the operating treasury_accounts rows and application_balance
  bwStore0,      \* bwStore before any writer ran
  \* ---- automated-full-transfer-scheduler
  sch,           \* per invocation: schedule_type, position, what the gate saw
  schLog,        \* its rows of automated_transfer_logs
  schRuns,       \* the calls of comprehensive-usd-aggregator it made
  schClock,      \* the time, in hours
  \* ---- the treasury manager (add_real_money, consolidate_all)
  tm,            \* the request being served and the outcome of the last one
  tmStore,       \* treasury_accounts, treasury_movements, application_balance,
                 \* earnings
  \* ---- the production Stripe payout flow
  ppInv,         \* the invocation's locals and what it has written
  ppStore,       \* autonomous_revenue_transactions and application_balance
  ppPayouts,     \* the payouts Stripe created, in cents
  \* ---- the fix-failed-transfers workflow
  fx,            \* the run: its position and the transfers it selected
  fxRows,        \* transfer_attempts
  fxLog,         \* per transfer: payouts submitted, payouts created, updates
                 \* that were not applied
  \* ---- ai-content-api
  ak,            \* per request: its position and the keyData it read
  akKey,         \* the api_keys row of the key the requests present
  \* ---- RevenueWorkerManager
  wp,            \* the component: the pool it holds in its state, and the
                 \* last value it wrote
  wpStore,       \* the autonomous_revenue_worker_pool row
  \* ---- autonomous-revenue-engine
  are,           \* the invocation: its position and what it has read
  areConfig,     \* autopilot_config: the number of rows with enabled = true
  arePayouts     \* the payouts submitted to Stripe, with what had been read

aggVars == <<rows, active, ledger, ledger0, env, dbFaults, pc, scanIdx, sources, totalAmount,
             breakdown, scanErrors, results, stripeSeen, zeroPos, auditLog,
             response, saved, extPayouts, zeroed, consumedValue>>

a2sVars == <<a2sEnv, a2sLedger, a2sLedger0, a2s, xferRows, xferLogs, stripeXfers, a2sErrs>>

csiVars == <<csiKey, csiTx, csiApp, csi, csiPayouts, csiLog, csiMarked, csiZeroed>>

pnVars == <<pn, pnLog, pnPayouts>>

\* The functions modelled after the first three.
bwVars == <<bw, bwStore, bwStore0>>
schVars == <<sch, schLog, schRuns, schClock>>
tmVars == <<tm, tmStore>>

\* The functions modelled last.
ppVars == <<ppInv, ppStore, ppPayouts>>
fxVars == <<fx, fxRows, fxLog>>
akVars == <<ak, akKey>>
wpVars == <<wp, wpStore>>
areVars == <<are, areConfig, arePayouts>>
moreVars == <<tmVars, ppVars, fxVars, akVars, wpVars, areVars>>
restVars == <<pnVars, bwVars, schVars, moreVars>>

vars == <<aggVars, a2sVars, csiVars, restVars>>

Inv == 1..NumInv

\* ------------------------------------------------------------ helpers
Min(a, b) == IF a <= b THEN a ELSE b

RECURSIVE SeqSum(_)
SeqSum(s) == IF s = <<>> THEN 0 ELSE Head(s) + SeqSum(Tail(s))

RECURSIVE SetSum(_, _)
SetSum(S, f) == IF S = {} THEN 0
                ELSE LET x == CHOOSE y \in S : TRUE
                     IN  f[x] + SetSum(S \ {x}, f)

\* ------------------------------------------------- the scanned tables
\* The modelled part of USD_BALANCE_TABLES, in configuration order.
USD_BALANCE_TABLES ==
  << [table |-> "treasury_accounts",   filter |-> TRUE,  single |-> FALSE],
     [table |-> "application_balance", filter |-> FALSE, single |-> TRUE ],
     [table |-> "earnings",            filter |-> FALSE, single |-> FALSE] >>

TreasuryRows == { <<"treasury_accounts", 1>>, <<"treasury_accounts", 2>> }
AppRow       == <<"application_balance", 1>>
EarningsRow  == <<"earnings", 1>>
AllRows      == TreasuryRows \cup {AppRow, EarningsRow}

\* Number(record[balanceColumn] || 0): null, undefined and 0 all give 0.
NumberOr0(col) == IF col = <<>> THEN 0 ELSE col[1]

\* The rows a query on the table returns, in id order: select('*') with the
\* table's .eq filters applied.
QueryRows(cfg, rws, act) ==
  LET match(r) == /\ r \in rws
                  /\ r[1] = cfg.table
                  /\ (cfg.filter => r \in act)
      ids == { r[2] : r \in { q \in AllRows : match(q) } }
      RECURSIVE ordered(_)
      ordered(S) == IF S = {} THEN <<>>
                    ELSE LET m == CHOOSE x \in S : \A y \in S : x <= y
                         IN  << <<cfg.table, m>> >> \o ordered(S \ {m})
  IN  ordered(ids)

\* for (const record of records) { if (amount > 0) tableTotal += amount }
CountsAny(amount) == amount # 0
Counts(amount) == amount > 0

RECURSIVE TableTotal(_, _)
TableTotal(records, led) ==
  IF records = <<>> THEN 0
  ELSE LET amount == NumberOr0(led[Head(records)])
       IN  (IF Counts(amount) THEN amount ELSE 0) + TableTotal(Tail(records), led)

\* records.filter(r => Number(r[balanceColumn] || 0) > 0)
PositiveRecords(records, led) ==
  SelectSeq(records, LAMBDA r : NumberOr0(led[r]) > 0)

Entry(action, who, amount) == [action |-> action, who |-> who, amount |-> amount]

NoResults == [stripe |-> "null", paypal |-> "null", bank |-> "null",
              modern_treasury |-> "null", successful_transfers |-> 0,
              failed_transfers |-> 0, total_transferred |-> 0,
              providers_attempted |-> <<>>]

NoResponse == [status |-> 0, success |-> FALSE, execution_id |-> FALSE]

\* ------------------------------------------------ per-invocation updates
Audit(i, entries) == auditLog' = [auditLog EXCEPT ![i] = @ \o entries]

ScanVarsUnchanged == UNCHANGED <<scanIdx, sources, totalAmount, breakdown, scanErrors>>
WorldUnchanged    ==
  UNCHANGED <<rows, active, ledger0, env, dbFaults, a2sVars, csiVars, restVars>>

\* ------------------------------------------------------------ the scan
\* serve handler, entry: logAudit('SCAN_STARTED').
Start(i) ==
  /\ pc[i] = "idle"
  /\ pc' = [pc EXCEPT ![i] = "scan"]
  /\ Audit(i, << Entry("SCAN_STARTED", "", Len(USD_BALANCE_TABLES)) >>)
  /\ WorldUnchanged /\ ScanVarsUnchanged
  /\ UNCHANGED <<ledger, results, stripeSeen, zeroPos, response, saved,
                 extPayouts, zeroed, consumedValue>>

\* Where the loop of scanAllTablesForUSD goes after a table: `continue` after a
\* returned error and the end of the catch block both lead to the next table.
NextTableAborting(idx, outcome) ==
  IF outcome = "ok" THEN idx + 1 ELSE Len(USD_BALANCE_TABLES) + 1
NextTable(idx, outcome) == idx + 1

\* breakdown[tableConfig.table] = tableTotal: a new key of a JavaScript object
\* is enumerated after the keys set before it.
AddToBreakdownFirst(b, table, tableTotal) == << <<table, tableTotal>> >> \o b
AddToBreakdown(b, table, tableTotal) == Append(b, <<table, tableTotal>>)

\* One iteration of the loop of scanAllTablesForUSD: the query of one table
\* and what the loop body does with its result.
ScanTable(i, outcome) ==
  /\ pc[i] = "scan"
  /\ outcome # "ok" => dbFaults
  /\ scanIdx[i] <= Len(USD_BALANCE_TABLES)
  /\ LET cfg     == USD_BALANCE_TABLES[scanIdx[i]]
         records == QueryRows(cfg, rows, active)
         \* maybeSingle(): no row gives data = null
         noData  == cfg.single /\ records = <<>>
         tableTotal == TableTotal(records, ledger)
     IN  /\ scanIdx' = [scanIdx EXCEPT ![i] = NextTable(@, outcome)]
         /\ IF outcome \in {"error", "throw"}
            THEN /\ scanErrors' = [scanErrors EXCEPT ![i] = Append(@, cfg.table)]
                 /\ UNCHANGED <<sources, totalAmount, breakdown, auditLog>>
            ELSE IF noData \/ ~(tableTotal > 0)
            THEN UNCHANGED <<sources, totalAmount, breakdown, scanErrors, auditLog>>
            ELSE /\ sources' = [sources EXCEPT ![i] = Append(@,
                                  [table |-> cfg.table, amount |-> tableTotal,
                                   recordCount |-> Len(records),
                                   records |-> PositiveRecords(records, ledger)])]
                 /\ totalAmount' = [totalAmount EXCEPT ![i] = @ + tableTotal]
                 /\ breakdown' = [breakdown EXCEPT ![i] =
                                    AddToBreakdown(@, cfg.table, tableTotal)]
                 /\ Audit(i, << Entry("TABLE_SCANNED", cfg.table, tableTotal) >>)
                 /\ UNCHANGED scanErrors
  /\ WorldUnchanged
  /\ UNCHANGED <<ledger, pc, results, stripeSeen, zeroPos, response, saved,
                 extPayouts, zeroed, consumedValue>>

\* if (aggregatedUSD.total_amount <= 0): the scan found nothing to transfer.
NoFundsNegative(total_amount) == total_amount < 0
NoFunds(total_amount) == total_amount <= 0

\* serve handler after the scan: SCAN_COMPLETED, and the no-funds exit.
ScanCompleted(i) ==
  /\ pc[i] = "scan"
  /\ scanIdx[i] > Len(USD_BALANCE_TABLES)
  /\ IF NoFunds(totalAmount[i])
     THEN /\ Audit(i, << Entry("SCAN_COMPLETED", "", totalAmount[i]),
                         Entry("NO_FUNDS", "", 0) >>)
          /\ pc' = [pc EXCEPT ![i] = "save_no_funds"]
     ELSE /\ Audit(i, << Entry("SCAN_COMPLETED", "", totalAmount[i]) >>)
          /\ pc' = [pc EXCEPT ![i] = "stripe"]
  /\ WorldUnchanged /\ ScanVarsUnchanged
  /\ UNCHANGED <<ledger, results, stripeSeen, zeroPos, response, saved,
                 extPayouts, zeroed, consumedValue>>

\* ------------------------------------------------------- the processors
ResOK(r, p, amt) == [r EXCEPT ![p] = "ok", !.successful_transfers = @ + 1,
                              !.total_transferred = @ + amt]
ResFail(r, p)    == [r EXCEPT ![p] = "fail", !.failed_transfers = @ + 1]
ResRefused(r, p) == [r EXCEPT ![p] = "fail"]
Attempted(r, name) == [r EXCEPT !.providers_attempted = Append(@, name)]

Paid(i, provider, amt) ==
  extPayouts' = Append(extPayouts, [inv |-> i, provider |-> provider, amount |-> amt])

\* The Stripe available balances an invocation may read (cents).
StripeBalances == {10, 100}

\* The amount handed to stripe.payouts.create, 0 when the balance check
\* refuses: if (stripeBalance >= transferAmount && transferAmount >= 0.50).
StripePayoutPartial(transferAmount, stripeBalance) ==
  IF stripeBalance > 0 /\ transferAmount >= STRIPE_MIN_CENTS
  THEN Min(transferAmount, stripeBalance) ELSE 0
StripePayout(transferAmount, stripeBalance) ==
  IF stripeBalance >= transferAmount /\ transferAmount >= STRIPE_MIN_CENTS
  THEN transferAmount ELSE 0

ProviderVarsUnchanged(i) ==
  /\ WorldUnchanged /\ ScanVarsUnchanged
  /\ UNCHANGED <<ledger, zeroPos, response, saved, zeroed, consumedValue>>

\* transferToAllProviders, the Stripe block.
StripeBlock(i, outcome, bal) ==
  /\ pc[i] = "stripe"
  /\ pc' = [pc EXCEPT ![i] = "paypal"]
  /\ LET t == totalAmount[i]
         r == Attempted(results[i], "stripe")
         amt == StripePayout(t, bal)
     IN  IF ~env.stripe
         THEN /\ results' = [results EXCEPT ![i] = ResRefused(@, "stripe")]
              /\ Audit(i, << Entry("STRIPE_NOT_CONFIGURED", "stripe", 0) >>)
              /\ UNCHANGED <<stripeSeen, extPayouts>>
         ELSE IF outcome = "throw_balance"
         THEN \* stripe.balance.retrieve() throws
              /\ results' = [results EXCEPT ![i] = ResFail(r, "stripe")]
              /\ Audit(i, << Entry("STRIPE_PAYOUT_FAILED", "stripe", 0) >>)
              /\ UNCHANGED <<stripeSeen, extPayouts>>
         ELSE /\ stripeSeen' = [stripeSeen EXCEPT ![i] = bal]
              /\ IF amt = 0
                 THEN /\ results' = [results EXCEPT ![i] = ResRefused(r, "stripe")]
                      /\ Audit(i, << Entry("STRIPE_BALANCE_CHECK", "stripe", bal),
                                     Entry("STRIPE_INSUFFICIENT_BALANCE", "stripe", bal) >>)
                      /\ UNCHANGED extPayouts
                 ELSE IF outcome = "ok"
                 THEN /\ results' = [results EXCEPT ![i] = ResOK(r, "stripe", t)]
                      /\ Audit(i, << Entry("STRIPE_BALANCE_CHECK", "stripe", bal),
                                     Entry("STRIPE_PAYOUT_SUCCESS", "stripe", t) >>)
                      /\ Paid(i, "stripe", amt)
                 ELSE \* stripe.payouts.create() throws
                      /\ results' = [results EXCEPT ![i] = ResFail(r, "stripe")]
                      /\ Audit(i, << Entry("STRIPE_BALANCE_CHECK", "stripe", bal),
                                     Entry("STRIPE_PAYOUT_FAILED", "stripe", 0) >>)
                      /\ UNCHANGED extPayouts
  /\ ProviderVarsUnchanged(i)

\* transferToAllProviders, the PayPal block: the token request, then the payout.
PayPalBlock(i, outcome) ==
  /\ pc[i] = "paypal"
  /\ pc' = [pc EXCEPT ![i] = "modern_treasury"]
  /\ LET t == totalAmount[i]
         r == Attempted(results[i], "paypal")
     IN  IF ~env.paypal
         THEN /\ results' = [results EXCEPT ![i] = ResRefused(@, "paypal")]
              /\ UNCHANGED <<auditLog, extPayouts>>
         ELSE CASE outcome = "ok" ->
                     /\ results' = [results EXCEPT ![i] = ResOK(r, "paypal", t)]
                     /\ Audit(i, << Entry("PAYPAL_PAYOUT_SUCCESS", "paypal", 0) >>)
                     /\ Paid(i, "paypal", t)
                [] outcome = "fail" ->
                     \* payoutResponse.ok is false
                     /\ results' = [results EXCEPT ![i] = ResFail(r, "paypal")]
                     /\ Audit(i, << Entry("PAYPAL_PAYOUT_FAILED", "paypal", 0) >>)
                     /\ UNCHANGED extPayouts
                [] outcome = "token_fail" ->
                     \* tokenResponse.ok is false: no audit entry is written
                     /\ results' = [results EXCEPT ![i] = ResFail(r, "paypal")]
                     /\ UNCHANGED <<auditLog, extPayouts>>
                [] OTHER ->
                     \* fetch or json() throws
                     /\ results' = [results EXCEPT ![i] = ResFail(r, "paypal")]
                     /\ Audit(i, << Entry("PAYPAL_ERROR", "paypal", 0) >>)
                     /\ UNCHANGED extPayouts
  /\ UNCHANGED stripeSeen
  /\ ProviderVarsUnchanged(i)

\* transferToAllProviders, the Modern Treasury block.
ModernTreasuryBlock(i, outcome) ==
  /\ pc[i] = "modern_treasury"
  /\ pc' = [pc EXCEPT ![i] = "bank"]
  /\ LET t == totalAmount[i]
         r == Attempted(results[i], "modern_treasury")
     IN  IF ~env.mt
         THEN /\ results' = [results EXCEPT ![i] = ResRefused(@, "modern_treasury")]
              /\ UNCHANGED <<auditLog, extPayouts>>
         ELSE CASE outcome = "ok" ->
                     /\ results' = [results EXCEPT ![i] = ResOK(r, "modern_treasury", t)]
                     /\ Audit(i, << Entry("MODERN_TREASURY_SUCCESS", "modern_treasury", 0) >>)
                     /\ Paid(i, "modern_treasury", t)
                [] outcome = "fail" ->
                     /\ results' = [results EXCEPT ![i] = ResFail(r, "modern_treasury")]
                     /\ Audit(i, << Entry("MODERN_TREASURY_FAILED", "modern_treasury", 0) >>)
                     /\ UNCHANGED extPayouts
                [] OTHER ->
                     /\ results' = [results EXCEPT ![i] = ResFail(r, "modern_treasury")]
                     /\ Audit(i, << Entry("MODERN_TREASURY_ERROR", "modern_treasury", 0) >>)
                     /\ UNCHANGED extPayouts
  /\ UNCHANGED stripeSeen
  /\ ProviderVarsUnchanged(i)

\* Step 3 of the serve handler: if (transferResults.successful_transfers > 0).
ShouldZeroAttempted(res) == res.successful_transfers + res.failed_transfers > 0
ShouldZero(res) == res.successful_transfers > 0

\* transferToAllProviders, the direct bank transfer block and the return; then
\* the serve handler's TRANSFERS_COMPLETED entry and its step 3 test.
BankBlock(i, outcome) ==
  /\ pc[i] = "bank"
  /\ LET t == totalAmount[i]
         r == Attempted(results[i], "bank_direct")
         tries == env.stripe /\ env.bank /\ results[i].stripe # "ok"
         res == IF ~tries THEN results[i]
                ELSE IF outcome = "ok" THEN ResOK(r, "bank", t)
                ELSE ResFail(r, "bank")
         bankEntry == IF ~tries THEN <<>>
                      ELSE IF outcome = "ok"
                      THEN << Entry("BANK_TRANSFER_SUCCESS", "bank", 0) >>
                      ELSE << Entry("BANK_TRANSFER_FAILED", "bank", 0) >>
     IN  /\ results' = [results EXCEPT ![i] = res]
         /\ IF tries /\ outcome = "ok" THEN Paid(i, "bank", t) ELSE UNCHANGED extPayouts
         /\ Audit(i, bankEntry \o
                     << Entry("TRANSFERS_COMPLETED", "", res.total_transferred) >>)
         /\ pc' = [pc EXCEPT ![i] = IF ShouldZero(res) THEN "zero" ELSE "save"]
  /\ UNCHANGED stripeSeen
  /\ ProviderVarsUnchanged(i)

\* ------------------------------------------------------- the consumption
\* zeroOutAllSourceBalances: one update of one record of one source, with the
\* SOURCE_ZEROED / ZERO_FAILED entry when it ends the source, and the serve
\* handler's BALANCES_ZEROED entry when it ends the last source.
ZeroRecord(i, outcome) ==
  /\ pc[i] = "zero"
  /\ outcome # "ok" => dbFaults
  /\ LET s   == zeroPos[i][1]
         r   == zeroPos[i][2]
         src == sources[i][s]
         rec == src.records[r]
         endsSource == outcome = "throw" \/ r = Len(src.records)
         endsAll    == endsSource /\ s = Len(sources[i])
         srcEntry == IF outcome = "throw"
                     THEN << Entry("ZERO_FAILED", src.table, 0) >>
                     ELSE IF endsSource
                     THEN << Entry("SOURCE_ZEROED", src.table, src.amount) >>
                     ELSE <<>>
         allEntry == IF endsAll
                     THEN << Entry("BALANCES_ZEROED", "", Len(sources[i])) >>
                     ELSE <<>>
     IN  /\ s <= Len(sources[i])
         /\ IF outcome = "ok"
            THEN \* update({[balanceColumn]: 0}).eq(idColumn, record[idColumn])
                 /\ ledger' = [ledger EXCEPT ![rec] = <<0>>]
                 /\ zeroed' = [zeroed EXCEPT ![i] = @ \cup {rec}]
                 /\ consumedValue' = [consumedValue EXCEPT ![i] =
                                        @ + NumberOr0(ledger[rec])]
            ELSE \* "error": the update resolves to {error}, which is not read;
                 \* "throw": the update rejects
                 UNCHANGED <<ledger, zeroed, consumedValue>>
         /\ Audit(i, srcEntry \o allEntry)
         /\ zeroPos' = [zeroPos EXCEPT ![i] =
                          IF endsSource THEN <<s + 1, 1>> ELSE <<s, r + 1>>]
         /\ pc' = [pc EXCEPT ![i] = IF endsAll THEN "save" ELSE "zero"]
  /\ WorldUnchanged /\ ScanVarsUnchanged
  /\ UNCHANGED <<results, stripeSeen, response, saved, extPayouts>>

\* saveAuditLog and the response: status 'no_funds' with a 400 response, or
\* 'completed' with the 200 response whose success field is the literal true.
ResponseSuccess(i) == TRUE

SaveAndRespond(i, outcome) ==
  /\ pc[i] \in {"save", "save_no_funds"}
  /\ outcome # "ok" => dbFaults
  /\ LET status == IF pc[i] = "save" THEN "completed" ELSE "no_funds"
     IN  /\ saved' = [saved EXCEPT ![i] = IF outcome = "ok" THEN status ELSE "lost"]
         /\ response' = [response EXCEPT ![i] =
                           IF pc[i] = "save"
                           THEN [status |-> 200, success |-> ResponseSuccess(i),
                                 execution_id |-> TRUE]
                           ELSE [status |-> 400, success |-> FALSE,
                                 execution_id |-> TRUE]]
  /\ pc' = [pc EXCEPT ![i] = "done"]
  /\ WorldUnchanged /\ ScanVarsUnchanged
  /\ UNCHANGED <<ledger, results, stripeSeen, zeroPos, auditLog, extPayouts,
                 zeroed, consumedValue>>

\* The invocation stops (isolate shut down, wall-clock limit) while it is
\* between the transfers and the end of the consumption.
Stop(i) ==
  /\ pc[i] = "zero"
  /\ pc' = [pc EXCEPT ![i] = "stopped"]
  /\ WorldUnchanged /\ ScanVarsUnchanged
  /\ UNCHANGED <<ledger, results, stripeSeen, zeroPos, auditLog, response, saved,
                 extPayouts, zeroed, consumedValue>>

\* ===================================================================
\* aggregate_usd_to_stripe
\* ===================================================================
A2SInv == 1..NumA2S

Row(amount, currency, status) ==
  [amount |-> amount, currency |-> currency, status |-> status]

\* (r.currency || 'USD').toUpperCase() === 'USD'; "" stands for null.
IsUSD(currency) == currency \in {"", "USD", "usd"}

RECURSIVE RowSum(_)
RowSum(rs) == IF rs = <<>> THEN 0
              ELSE NumberOr0(Head(rs).amount) + RowSum(Tail(rs))

\* aggregateUSD = appBalance + artUSD + consBalUSD + consAmountsUSD + earningsUSD
AggregateUSD(l) ==
  NumberOr0(l.application_balance)
  + RowSum(SelectSeq(l.autonomous_revenue_transactions,
                     LAMBDA r : IsUSD(r.currency) /\ r.status = "success"))
  + RowSum(SelectSeq(l.consolidated_balances, LAMBDA r : IsUSD(r.currency)))
  + RowSum(l.consolidated_amounts)
  + RowSum(l.earnings)

\* aggregateCents = Math.max(0, Math.round(aggregateUSD * 100))
AggregateCents(l) == IF AggregateUSD(l) > 0 THEN AggregateUSD(l) ELSE 0

\* amountToTransferCents = Math.min(aggregateCents, availableUSD)
AmountToTransferCents(aggregateCents, availableUSD) == Min(aggregateCents, availableUSD)

\* The errors stripe.transfers.create may throw: a code and a type.
StripeError(code, type) == [code |-> code, type |-> type]
NoError == StripeError("", "")
StripeErrors == { StripeError("rate_limit", "invalid_request_error"),
                  StripeError("lock_timeout", "invalid_request_error"),
                  StripeError("temporary_unavailable", ""),
                  StripeError("", "api_connection_error"),
                  StripeError("", "api_error"),
                  StripeError("insufficient_funds", "invalid_request_error"),
                  StripeError("account_invalid", "invalid_request_error"),
                  StripeError("authentication_error", ""),
                  StripeError("invalid_request_error", "api_error"),
                  StripeError("balance_insufficient", "invalid_request_error") }

RetryableByCode(e) ==
  e.code \in {"rate_limit", "lock_timeout", "temporary_unavailable"}
Retryable(e) ==
  \/ e.code \in {"rate_limit", "lock_timeout", "temporary_unavailable"}
  \/ e.type \in {"api_connection_error", "api_error"}
NonRetryable(e) ==
  e.code \in {"insufficient_funds", "account_invalid", "authentication_error",
              "invalid_request_error", "account_deactivated", "transfers_not_allowed"}

\* if (nonRetryable || attempt === MAX_RETRIES || !retryable) break;
GivesUpLate(e, attempt) ==
  NonRetryable(e) \/ attempt = MAX_RETRIES + 1 \/ ~Retryable(e)
GivesUp(e, attempt) == NonRetryable(e) \/ attempt = MAX_RETRIES \/ ~Retryable(e)

\* getDelay = (attempt) => INITIAL_DELAY * Math.pow(2, attempt)
getDelay(attempt) == INITIAL_DELAY * 2^attempt

A2SIdle == [pc |-> "idle", dry_run |-> FALSE, availableUSD |-> 0,
            aggregateCents |-> 0, amountToTransferCents |-> 0, attempt |-> 0,
            lastError |-> NoError, transfer |-> 0, slept |-> <<>>,
            after |-> {}, executionId |-> 0,
            response |-> [status |-> 0, success |-> FALSE, execution_id |-> "none"]]

\* A response; execution_id says where the body carries the executionId: at
\* its top level ("top"), only inside breakdown ("breakdown"), or nowhere.
Respond(status, success, withId) ==
  [status |-> status, success |-> success, execution_id |-> withId]

A2SFrame ==
  UNCHANGED <<aggVars, csiVars, restVars, a2sEnv, a2sLedger, a2sLedger0, a2sErrs>>

\* What Date.now() may return to the next invocation: a millisecond not
\* before the ones earlier invocations read (0 stands for "not read yet").
ClockReadings ==
  LET read == { a2s[k].executionId : k \in A2SInv } \ {0}
      last == CHOOSE m \in read : \A n \in read : n <= m
  IN  IF read = {} THEN {1} ELSE {last, last + 1}

\* const executionId = `aggregate_${Date.now()}`
ExecutionId(now) == now

\* serve handler up to the Stripe balance: the executionId, the request body,
\* the environment checks and stripe.balance.retrieve().
A2SBegin(j, dry, outcome, bal, now) ==
  /\ a2s[j].pc = "idle"
  /\ a2s' = [a2s EXCEPT ![j] =
       CASE a2sEnv = "no_supabase" ->
              [@ EXCEPT !.pc = "done", !.executionId = ExecutionId(now),
                        !.response = Respond(500, FALSE, "none")]
         [] a2sEnv = "no_stripe" ->
              [@ EXCEPT !.pc = "done", !.executionId = ExecutionId(now),
                        !.response = Respond(400, FALSE, "none")]
         [] outcome = "throw" ->
              [@ EXCEPT !.pc = "done", !.executionId = ExecutionId(now),
                        !.response = Respond(500, FALSE, "top")]
         [] OTHER ->
              [@ EXCEPT !.pc = "aggregate", !.dry_run = dry, !.availableUSD = bal,
                        !.executionId = ExecutionId(now),
                        !.after = { k \in A2SInv : a2s[k].pc = "done" }]]
  /\ UNCHANGED <<xferRows, xferLogs, stripeXfers>>
  /\ A2SFrame

\* The five reads, the aggregation, and the skipped and dry-run exits.
A2SAggregate(j, outcome) ==
  /\ a2s[j].pc = "aggregate"
  /\ LET agg == AggregateCents(a2sLedger)
         amt == AmountToTransferCents(agg, a2s[j].availableUSD)
     IN  IF outcome = "error"
         THEN /\ a2s' = [a2s EXCEPT ![j].pc = "done",
                                    ![j].response = Respond(500, FALSE, "top")]
              /\ UNCHANGED xferLogs
         ELSE IF amt <= 0
         THEN /\ a2s' = [a2s EXCEPT ![j].pc = "done", ![j].aggregateCents = agg,
                                    ![j].amountToTransferCents = amt,
                                    ![j].response = Respond(400, FALSE, "breakdown")]
              /\ xferLogs' = [xferLogs EXCEPT ![j] = Append(@, "skipped")]
         ELSE IF a2s[j].dry_run
         THEN /\ a2s' = [a2s EXCEPT ![j].pc = "done", ![j].aggregateCents = agg,
                                    ![j].amountToTransferCents = amt,
                                    ![j].response = Respond(200, TRUE, "breakdown")]
              /\ UNCHANGED xferLogs
         ELSE /\ a2s' = [a2s EXCEPT ![j].pc = "insert", ![j].aggregateCents = agg,
                                    ![j].amountToTransferCents = amt]
              /\ UNCHANGED xferLogs
  /\ UNCHANGED <<xferRows, stripeXfers>>
  /\ A2SFrame

\* if (insertRes.error) throw insertRes.error;
InsertThrowsNever(outcome) == FALSE
InsertThrows(outcome) == outcome = "error"

\* Insert transfer record (high level): status 'processing'.
A2SInsert(j, outcome) ==
  /\ a2s[j].pc = "insert"
  /\ xferRows' = IF outcome = "error" THEN xferRows
                 ELSE Append(xferRows,
                        [by |-> j, status |-> "processing", setBy |-> j,
                         amount |-> a2s[j].amountToTransferCents])
  /\ a2s' = IF InsertThrows(outcome)
            THEN [a2s EXCEPT ![j].pc = "done",
                             ![j].response = Respond(500, FALSE, "top")]
            ELSE [a2s EXCEPT ![j].pc = "attempt"]
  /\ UNCHANGED <<xferLogs, stripeXfers>>
  /\ A2SFrame

\* One pass of the retry loop: stripe.transfers.create and the catch block.
\* created: whether Stripe created the transfer although the call threw (the
\* response of a created transfer was lost: api_connection_error).
A2SAttempt(j, ok, e, created) ==
  /\ a2s[j].pc = "attempt"
  /\ ~ok => e \in a2sErrs
  /\ created => (~ok /\ e.type = "api_connection_error")
  /\ LET n == a2s[j].attempt
     IN  /\ stripeXfers' = IF ok \/ created
                           THEN [stripeXfers EXCEPT ![j] = Append(@, n + 1)]
                           ELSE stripeXfers
         /\ a2s' = [a2s EXCEPT ![j] =
              IF ok THEN [@ EXCEPT !.pc = "succeeded", !.transfer = n + 1]
              ELSE IF GivesUp(e, n)
              THEN [@ EXCEPT !.pc = "failed", !.lastError = e]
              ELSE [@ EXCEPT !.lastError = e, !.attempt = n + 1,
                             !.slept = Append(@, getDelay(n))]]
  /\ UNCHANGED <<xferRows, xferLogs>>
  /\ A2SFrame

\* .update({...}).order('created_at', {ascending: false}).limit(1): the update
\* carries no filter on the row's identity; it reaches the newest row.
UpdateNewest(rs, j, status) ==
  IF rs = <<>> THEN rs
  ELSE [rs EXCEPT ![Len(rs)] = [@ EXCEPT !.status = status, !.setBy = j]]

\* if (!transfer): the failed log row, the failed status, the 500 response.
A2SFail(j) ==
  /\ a2s[j].pc = "failed"
  /\ xferLogs' = [xferLogs EXCEPT ![j] = Append(@, "failed")]
  /\ xferRows' = UpdateNewest(xferRows, j, "failed")
  /\ a2s' = [a2s EXCEPT ![j].pc = "done", ![j].response = Respond(500, FALSE, "breakdown")]
  /\ UNCHANGED stripeXfers
  /\ A2SFrame

\* Success: mark transfer completed and log; the 200 response.
A2SSucceed(j) ==
  /\ a2s[j].pc = "succeeded"
  /\ xferRows' = UpdateNewest(xferRows, j, "completed")
  /\ xferLogs' = [xferLogs EXCEPT ![j] = Append(@, "completed")]
  /\ a2s' = [a2s EXCEPT ![j].pc = "done", ![j].response = Respond(200, TRUE, "top")]
  /\ UNCHANGED stripeXfers
  /\ A2SFrame

\* The source tables: one with funds in every table ($0.75 in all, next to
\* rows the filters drop), one empty, one whose only row is negative.
A2SLedgers ==
  { [application_balance |-> <<40>>,
     autonomous_revenue_transactions |->
        << Row(<<30>>, "USD", "success"), Row(<<20>>, "EUR", "success"),
           Row(<<7>>, "usd", "pending") >>,
     consolidated_balances |-> << Row(<<10>>, "", "") >>,
     consolidated_amounts |-> << Row(<<>>, "", "") >>,
     earnings |-> << Row(<<-5>>, "", "") >>],
    [application_balance |-> <<>>,
     autonomous_revenue_transactions |-> <<>>,
     consolidated_balances |-> <<>>,
     consolidated_amounts |-> <<>>,
     earnings |-> <<>>],
    [application_balance |-> <<0>>,
     autonomous_revenue_transactions |-> <<>>,
     consolidated_balances |-> <<>>,
     consolidated_amounts |-> <<>>,
     earnings |-> << Row(<<-5>>, "", "") >>] }

\* Stripe available balances (cents) the function may read.
A2SBalances == {0, 10, 100}

A2SOff == [j \in A2SInv |-> [A2SIdle EXCEPT !.pc = "off"]]

InitA2SOff ==
  /\ a2sEnv = "ok"
  /\ a2sLedger = CHOOSE l \in A2SLedgers : l.application_balance = <<>>
  /\ a2sLedger0 = a2sLedger
  /\ a2s = A2SOff
  /\ a2sErrs = {}
  /\ xferRows = <<>>
  /\ xferLogs = [j \in A2SInv |-> <<>>]
  /\ stripeXfers = [j \in A2SInv |-> <<>>]

\* One invocation under every environment, ledger and Stripe error, or
\* several invocations with funds to move and a Stripe that answers.
InitA2SOn ==
  /\ a2sEnv \in {"ok", "no_supabase", "no_stripe"}
  /\ a2sLedger \in A2SLedgers
  /\ a2sLedger0 = a2sLedger
  /\ a2sErrs \in { StripeErrors, {} }
  /\ a2s \in { [j \in A2SInv |-> IF j <= n THEN A2SIdle
                                  ELSE [A2SIdle EXCEPT !.pc = "off"]] :
                n \in A2SInv }
  /\ a2s[1].pc = "idle"
  /\ (\E j \in A2SInv : j > 1 /\ a2s[j].pc = "idle") <=>
       /\ a2sErrs # StripeErrors
       /\ a2sEnv = "ok"
       /\ AggregateCents(a2sLedger) > 0
  /\ xferRows = <<>>
  /\ xferLogs = [j \in A2SInv |-> <<>>]
  /\ stripeXfers = [j \in A2SInv |-> <<>>]

NextA2S ==
  \E j \in A2SInv :
    \/ \E dry \in BOOLEAN, o \in {"ok", "throw"}, b \in A2SBalances,
          now \in ClockReadings :
         A2SBegin(j, dry, o, b, now)
    \/ \E o \in {"ok", "error"} : A2SAggregate(j, o)
    \/ \E o \in {"ok", "error"} : A2SInsert(j, o)
    \/ \E ok \in BOOLEAN, e \in StripeErrors, c \in BOOLEAN : A2SAttempt(j, ok, e, c)
    \/ A2SFail(j)
    \/ A2SSucceed(j)

\* ===================================================================
\* comprehensive-stripe-integration
\* ===================================================================
Tx(amount, status, satisfied, recognized) ==
  [amount |-> amount, status |-> status,
   performance_obligation_satisfied |-> satisfied,
   revenue_recognized |-> recognized]

RECURSIVE TxSum(_)
TxSum(ts) == IF ts = <<>> THEN 0 ELSE Head(ts).amount + TxSum(Tail(ts))

\* calculateTransferableBalance: completed, obligation satisfied, recognition
\* date set; plus balance?.balance_amount || 0.
CompliantRevenue(ts) ==
  SelectSeq(ts, LAMBDA t : /\ t.status = "completed"
                           /\ t.performance_obligation_satisfied
                           /\ t.revenue_recognized)
TransferableTotal(ts, app) == TxSum(CompliantRevenue(ts)) + NumberOr0(app[1])

NoTransfer == [id |-> "none", amount |-> 0]
CsiIdle == [pc |-> "idle", total |-> 0, transfer |-> NoTransfer,
            response |-> [status |-> 0, success |-> FALSE]]

CsiFrame == UNCHANGED <<aggVars, a2sVars, restVars, csiKey>>
CsiThrow == [csi EXCEPT !.pc = "done", !.response = [status |-> 500, success |-> FALSE]]

\* serve handler: the STRIPE_SECRET_KEY test and analyzeAllRevenueSources.
CsiAnalyze(outcome) ==
  /\ csi.pc = "idle"
  /\ csi' = IF ~csiKey \/ outcome = "error" THEN CsiThrow
            ELSE [csi EXCEPT !.pc = "calculate"]
  /\ UNCHANGED <<csiTx, csiApp, csiPayouts, csiLog, csiMarked, csiZeroed>>
  /\ CsiFrame

\* calculateTransferableBalance; .single() errs unless exactly one row exists.
CsiCalculate(outcome) ==
  /\ csi.pc = "calculate"
  /\ csi' = IF outcome = "error" \/ Len(csiApp) # 1 THEN CsiThrow
            ELSE [csi EXCEPT !.pc = "execute",
                             !.total = TransferableTotal(csiTx, csiApp)]
  /\ UNCHANGED <<csiTx, csiApp, csiPayouts, csiLog, csiMarked, csiZeroed>>
  /\ CsiFrame

\* executeMaximumProfitabilityTransfer: below $1 or when payouts.create throws
\* it returns an object with id "simulated_...", otherwise the payout.
CsiExecute(outcome) ==
  /\ csi.pc = "execute"
  /\ IF csi.total < CSI_MIN_CENTS \/ outcome = "throw"
     THEN /\ csi' = [csi EXCEPT !.pc = "update",
                       !.transfer = [id |-> "simulated", amount |-> csi.total]]
          /\ UNCHANGED csiPayouts
     ELSE /\ csi' = [csi EXCEPT !.pc = "update",
                       !.transfer = [id |-> "payout", amount |-> csi.total]]
          /\ csiPayouts' = Append(csiPayouts, csi.total)
  /\ UNCHANGED <<csiTx, csiApp, csiLog, csiMarked, csiZeroed>>
  /\ CsiFrame

\* Step 5 of the serve handler calls updateComplianceRecords with whatever
\* executeMaximumProfitabilityTransfer returned; its first statement is the
\* transfer log insert.
CsiInsertLog(outcome) ==
  /\ csi.pc = "update"
  /\ IF outcome = "error"
     THEN /\ csi' = CsiThrow
          /\ UNCHANGED csiLog
     ELSE /\ csi' = [csi EXCEPT !.pc = "mark"]
          /\ csiLog' = Append(csiLog, [id |-> csi.transfer.id,
                                       amount |-> csi.transfer.amount,
                                       status |-> "completed"])
  /\ UNCHANGED <<csiTx, csiApp, csiPayouts, csiMarked, csiZeroed>>
  /\ CsiFrame

\* updateComplianceRecords, second statement:
\* update({status: 'transferred'}).eq('status', 'completed').
CsiMarkTransactions(outcome) ==
  /\ csi.pc = "mark"
  /\ IF outcome = "error"
     THEN /\ csi' = CsiThrow
          /\ UNCHANGED <<csiTx, csiMarked>>
     ELSE /\ csi' = [csi EXCEPT !.pc = "zero"]
          /\ csiTx' = [k \in 1..Len(csiTx) |->
                         IF csiTx[k].status = "completed"
                         THEN [csiTx[k] EXCEPT !.status = "transferred"]
                         ELSE csiTx[k]]
          /\ csiMarked' = csiMarked \cup
                            { k \in 1..Len(csiTx) : csiTx[k].status = "completed" }
  /\ UNCHANGED <<csiApp, csiPayouts, csiLog, csiZeroed>>
  /\ CsiFrame

\* updateComplianceRecords, third statement:
\* update({balance_amount: 0}).eq('id', 1).
CsiZeroBalance(outcome) ==
  /\ csi.pc = "zero"
  /\ IF outcome = "error"
     THEN /\ csi' = CsiThrow
          /\ UNCHANGED <<csiApp, csiZeroed>>
     ELSE /\ csi' = [csi EXCEPT !.pc = "optimize"]
          /\ csiApp' = [k \in 1..Len(csiApp) |-> IF k = 1 THEN <<0>> ELSE csiApp[k]]
          /\ csiZeroed' = TRUE
  /\ UNCHANGED <<csiTx, csiPayouts, csiLog, csiMarked>>
  /\ CsiFrame

\* optimizeRevenueStreams and the 200 response.
CsiOptimize(outcome) ==
  /\ csi.pc = "optimize"
  /\ csi' = IF outcome = "error" THEN CsiThrow
            ELSE [csi EXCEPT !.pc = "done",
                             !.response = [status |-> 200, success |-> TRUE]]
  /\ UNCHANGED <<csiTx, csiApp, csiPayouts, csiLog, csiMarked, csiZeroed>>
  /\ CsiFrame

NextCSI ==
  \/ \E o \in {"ok", "error"} : CsiAnalyze(o)
  \/ \E o \in {"ok", "error"} : CsiCalculate(o)
  \/ \E o \in {"ok", "throw"} : CsiExecute(o)
  \/ \E o \in {"ok", "error"} : CsiInsertLog(o)
  \/ \E o \in {"ok", "error"} : CsiMarkTransactions(o)
  \/ \E o \in {"ok", "error"} : CsiZeroBalance(o)
  \/ \E o \in {"ok", "error"} : CsiOptimize(o)

InitCSIOff ==
  /\ csiKey = FALSE
  /\ csiTx = <<>>
  /\ csiApp = <<>>
  /\ csi = [CsiIdle EXCEPT !.pc = "off"]
  /\ csiPayouts = <<>>
  /\ csiLog = <<>>
  /\ csiMarked = {}
  /\ csiZeroed = FALSE

\* Up to two revenue transactions of $0.40 or $1.50 in any status and
\* compliance state, and no, one ($0.30, $1.50 or null) or two balance rows.
InitCSIOn ==
  /\ csiKey \in BOOLEAN
  /\ csiTx \in LET T == { Tx(a, st, sat, rec) :
                           a \in {40, 150}, st \in {"completed", "pending"},
                           sat \in BOOLEAN, rec \in BOOLEAN }
               IN  { <<>> } \cup { <<t>> : t \in T }
                   \cup { <<t, Tx(40, "completed", FALSE, TRUE)>> : t \in T }
  /\ csiApp \in { <<>>, << <<>> >>, << <<30>> >>, << <<150>> >>, << <<30>>, <<30>> >> }
  /\ csi = CsiIdle
  /\ csiPayouts = <<>>
  /\ csiLog = <<>>
  /\ csiMarked = {}
  /\ csiZeroed = FALSE

\* ===================================================================
\* payout_now
\* ===================================================================
\* const MIN_PAYOUT_CENTS = 50; // $0.50
MIN_PAYOUT_CENTS == 50

\* Math.floor of an amount given in half cents, in cents.
MathFloor(halfCents) == halfCents \div 2

\* desiredAmount = typeof amount_cents === "number" ? Math.floor(amount_cents)
\*                                                  : availableUSD;
\* amount_cents is <<>> when the body carries none, else <<half cents>>.
DesiredAmount(amount_cents, availableUSD) ==
  IF amount_cents # <<>> THEN MathFloor(amount_cents[1]) ELSE availableUSD

\* payoutAmount = Math.max(0, Math.min(desiredAmount, availableUSD))
PayoutAmountUncapped(desiredAmount, availableUSD) ==
  IF desiredAmount > 0 THEN desiredAmount ELSE 0
PayoutAmount(desiredAmount, availableUSD) ==
  LET m == Min(desiredAmount, availableUSD) IN IF m > 0 THEN m ELSE 0

PnIdle == [pc |-> "idle", env |-> "ok", amount_cents |-> <<>>, availableUSD |-> 0,
           desiredAmount |-> 0, payoutAmount |-> 0,
           response |-> [status |-> 0, success |-> FALSE]]

PnFrame == UNCHANGED <<aggVars, a2sVars, csiVars, bwVars, schVars, moreVars>>

\* A row of automated_transfer_logs: its status and the fields of its
\* response column that carry an amount or a reason (<<>>: field absent).
PnRow(status, reason, available, desired, amount) ==
  [status |-> status, reason |-> reason, available_usd_cents |-> available,
   desired_cents |-> desired, amount_cents |-> amount]

\* The handler up to payoutAmount: the environment checks, the request body,
\* stripe.balance.retrieve() and the two amounts.
PnBegin(req, bal, outcome) ==
  /\ pn.pc = "idle"
  /\ pn' = CASE pn.env = "no_supabase" ->
                  [pn EXCEPT !.pc = "done",
                             !.response = [status |-> 500, success |-> FALSE]]
             [] pn.env = "no_stripe" ->
                  [pn EXCEPT !.pc = "done",
                             !.response = [status |-> 400, success |-> FALSE]]
             [] outcome = "throw" ->
                  [pn EXCEPT !.pc = "catch", !.amount_cents = req]
             [] OTHER ->
                  LET d == DesiredAmount(req, bal)
                      a == PayoutAmount(d, bal)
                  IN  [pn EXCEPT !.pc = IF a < MIN_PAYOUT_CENTS THEN "skip" ELSE "payout",
                                 !.amount_cents = req, !.availableUSD = bal,
                                 !.desiredAmount = d, !.payoutAmount = a]
  /\ UNCHANGED <<pnLog, pnPayouts>>
  /\ PnFrame

\* if (payoutAmount < MIN_PAYOUT_CENTS): the 'skipped' row and the 400
\* response; an insert that resolves to an error is not looked at.
PnSkip(outcome) ==
  /\ pn.pc = "skip"
  /\ pnLog' = IF outcome = "ok"
              THEN Append(pnLog, PnRow("skipped", "Below minimum payout",
                                       <<pn.availableUSD>>, <<>>, <<>>))
              ELSE pnLog
  /\ pn' = IF outcome = "throw" THEN [pn EXCEPT !.pc = "catch"]
           ELSE [pn EXCEPT !.pc = "done",
                           !.response = [status |-> 400, success |-> FALSE]]
  /\ UNCHANGED pnPayouts
  /\ PnFrame

\* stripe.payouts.create({amount: payoutAmount, currency: "usd"}).
PnPayout(outcome) ==
  /\ pn.pc = "payout"
  /\ IF outcome = "ok"
     THEN /\ pnPayouts' = Append(pnPayouts, pn.payoutAmount)
          /\ pn' = [pn EXCEPT !.pc = "log"]
     ELSE /\ UNCHANGED pnPayouts
          /\ pn' = [pn EXCEPT !.pc = "catch"]
  /\ UNCHANGED pnLog
  /\ PnFrame

\* Log successful payout, and the 200 response.
PnLogCompleted(outcome) ==
  /\ pn.pc = "log"
  /\ pnLog' = IF outcome = "ok"
              THEN Append(pnLog, PnRow("completed", "", <<>>, <<>>, <<pn.payoutAmount>>))
              ELSE pnLog
  /\ pn' = IF outcome = "throw" THEN [pn EXCEPT !.pc = "catch"]
           ELSE [pn EXCEPT !.pc = "done",
                           !.response = [status |-> 200, success |-> TRUE]]
  /\ UNCHANGED pnPayouts
  /\ PnFrame

\* catch: the 'failed' row and the 500 response.
PnCatch(outcome) ==
  /\ pn.pc = "catch"
  /\ pnLog' = IF outcome = "ok"
              THEN Append(pnLog, PnRow("failed", "", <<>>, <<>>, <<>>))
              ELSE pnLog
  /\ pn' = [pn EXCEPT !.pc = "done",
                      !.response = [status |-> 500, success |-> FALSE]]
  /\ UNCHANGED pnPayouts
  /\ PnFrame

\* Requests: no amount, or -1.5, 0, 49.5, 50.5, 60 and 200 cents (in half
\* cents); Stripe available balances of 0, 40, 50 and 100 cents.
PnRequests == { <<>>, <<-3>>, <<0>>, <<99>>, <<101>>, <<120>>, <<400>> }
PnBalances == { 0, 40, 50, 100 }

NextPN ==
  \/ \E req \in PnRequests, bal \in PnBalances, o \in {"ok", "throw"} :
       PnBegin(req, bal, o)
  \/ \E o \in {"ok", "error", "throw"} : PnSkip(o)
  \/ \E o \in {"ok", "throw"} : PnPayout(o)
  \/ \E o \in {"ok", "error", "throw"} : PnLogCompleted(o)
  \/ \E o \in {"ok", "error"} : PnCatch(o)

InitPNOff ==
  /\ pn = [PnIdle EXCEPT !.pc = "off"]
  /\ pnLog = <<>>
  /\ pnPayouts = <<>>

InitPNOn ==
  /\ pn \in { [PnIdle EXCEPT !.env = e] : e \in {"ok", "no_supabase", "no_stripe"} }
  /\ pnLog = <<>>
  /\ pnPayouts = <<>>

\* ===================================================================
\* The writers of a balance row: add_real_money of the treasury manager and
\* the revenue aggregation of hyper-revenue-generator
\* ===================================================================
Writers == 1..NumWriters

BwFrame ==
  UNCHANGED <<aggVars, a2sVars, csiVars, pnVars, schVars, moreVars, bwStore0>>

BwDone(w, status, faulted) ==
  bw' = [bw EXCEPT ![w].pc = "done", ![w].status = status,
                   ![w].faulted = @ \/ faulted]

\* addRealMoneyToTreasury, the select of the active operating account:
\* maybeSingle() gives null for no row and an error for more than one.
TrRead(w, outcome) ==
  /\ bw[w].pc = "idle" /\ bw[w].kind = "add_real_money"
  /\ IF outcome = "error" \/ Len(bwStore.treasury) > 1
     THEN BwDone(w, 500, outcome = "error")
     ELSE bw' = [bw EXCEPT ![w].pc = "write",
                           ![w].seen = IF bwStore.treasury = <<>> THEN <<>>
                                       ELSE <<bwStore.treasury[1]>>]
  /\ UNCHANGED bwStore
  /\ BwFrame

\* The balance a writer stores: what it read, plus its amount.
SumWritten(seen, amount) == NumberOr0(seen) + amount

\* addRealMoneyToTreasury, the insert of a new account or the update of the
\* account read, by id.
TrWrite(w, outcome) ==
  /\ bw[w].pc = "write" /\ bw[w].kind = "add_real_money"
  /\ IF outcome = "error"
     THEN /\ BwDone(w, 500, TRUE)
          /\ UNCHANGED bwStore
     ELSE /\ bw' = [bw EXCEPT ![w].pc = "log"]
          /\ bwStore' =
               [bwStore EXCEPT !.treasury =
                  IF bw[w].seen = <<>>
                  THEN Append(@, bw[w].amount)
                  ELSE [@ EXCEPT ![1] = SumWritten(bw[w].seen, bw[w].amount)]]
  /\ BwFrame

\* addRealMoneyToTreasury, the treasury_movements row, and the response of
\* the handler.
TrLogMovement(w, outcome) ==
  /\ bw[w].pc = "log"
  /\ BwDone(w, IF outcome = "ok" THEN 200 ELSE 500, outcome # "ok")
  /\ UNCHANGED bwStore
  /\ BwFrame

\* hyper-revenue-generator: totalAmount > 0, then the select of
\* application_balance; a failed select leaves currentBalance undefined.
AppRead(w, outcome) ==
  /\ bw[w].pc = "idle" /\ bw[w].kind = "revenue"
  /\ bw[w].amount > 0
  /\ bw' = [bw EXCEPT ![w].pc = "write",
                      ![w].seen = IF outcome = "ok" THEN bwStore.app ELSE <<>>,
                      ![w].faulted = outcome # "ok"]
  /\ UNCHANGED bwStore
  /\ BwFrame

\* hyper-revenue-generator: newBalance and the upsert of row 1, whose result
\* is not read, and the 200 response.
AppWrite(w, outcome) ==
  /\ bw[w].pc = "write" /\ bw[w].kind = "revenue"
  /\ BwDone(w, 200, outcome # "ok")
  /\ bwStore' = IF outcome = "ok"
                THEN [bwStore EXCEPT !.app = <<SumWritten(bw[w].seen, bw[w].amount)>>]
                ELSE bwStore
  /\ BwFrame

NextBW ==
  \E w \in Writers, o \in {"ok", "error"} :
    \/ TrRead(w, o)
    \/ TrWrite(w, o)
    \/ TrLogMovement(w, o)
    \/ AppRead(w, o)
    \/ AppWrite(w, o)

BwIdle(kind, amount) ==
  [pc |-> "idle", kind |-> kind, amount |-> amount, seen |-> <<>>,
   status |-> 0, faulted |-> FALSE]

InitBWOff ==
  /\ bw = [w \in Writers |-> [BwIdle("add_real_money", 0) EXCEPT !.pc = "off"]]
  /\ bwStore = [treasury |-> <<>>, app |-> <<>>]
  /\ bwStore0 = bwStore

InitBWOn ==
  /\ bw \in [Writers -> { BwIdle(k, a) : k \in {"add_real_money", "revenue"},
                                          a \in {10, 25} }]
  /\ bwStore \in [treasury : { <<>>, <<100>> }, app : { <<>>, <<40>> }]
  /\ bwStore0 = bwStore

\* ===================================================================
\* automated-full-transfer-scheduler
\* ===================================================================
SchInv == 1..NumSch

\* 60 * 60 * 1000, 24 * 60 * 60 * 1000 and 7 * 24 * 60 * 60 * 1000 ms, in hours.
HOURLY_INTERVAL == 1
DAILY_INTERVAL  == 24
WEEKLY_INTERVAL == 168

\* The times at which something happens.
ClockValues == {0, 1, 24, 168}

\* The values of schedule_type a request carries; 'monthly' stands for every
\* value the switch does not know.
ScheduleTypes == {"manual", "hourly", "daily", "weekly", "monthly"}

Interval(scheduleType) ==
  CASE scheduleType = "hourly" -> HOURLY_INTERVAL
    [] scheduleType = "daily"  -> DAILY_INTERVAL
    [] scheduleType = "weekly" -> WEEKLY_INTERVAL
    [] OTHER -> 0

\* .eq('status', 'completed').order('execution_time', {ascending: false})
\* .limit(1).maybeSingle(): the execution_time of the newest completed row,
\* <<>> when there is none.
LastRunOfAnyStatus(log) ==
  IF log = <<>> THEN <<>>
  ELSE << CHOOSE t \in { log[k].execution_time : k \in 1..Len(log) } :
            \A k \in 1..Len(log) : log[k].execution_time <= t >>
LastRun(log) ==
  LET done == SelectSeq(log, LAMBDA r : r.status = "completed")
  IN  IF done = <<>> THEN <<>>
      ELSE << CHOOSE t \in { done[k].execution_time : k \in 1..Len(done) } :
                \A k \in 1..Len(done) : done[k].execution_time <= t >>

\* shouldRunTransfer: its run field, from the schedule type, the outcome of
\* the lookup, the last run it returned and the time.
ShouldRun(scheduleType, lookup, lastRun, now) ==
  IF scheduleType = "manual" THEN TRUE
  ELSE IF lookup = "error" THEN TRUE
  ELSE IF scheduleType \in {"hourly", "daily", "weekly"}
  THEN ~(lastRun # <<>> /\ now - lastRun[1] < Interval(scheduleType))
  ELSE FALSE

SchIdle == [pc |-> "idle", schedule_type |-> "manual", lookup |-> "none",
            lastRun |-> <<>>, now |-> 0, invoked |-> "none",
            insertFailed |-> FALSE, status |-> 0, success |-> FALSE]

SchFrame == UNCHANGED <<aggVars, a2sVars, csiVars, pnVars, bwVars, moreVars>>

SchRow(i, status) ==
  [by |-> i, status |-> status, execution_time |-> schClock]

\* The handler up to the decision of shouldRunTransfer, and the 200 response
\* of an invocation that is not to run.
SchGate(i, scheduleType, lookup) ==
  /\ sch[i].pc = "idle"
  /\ LET looked  == IF scheduleType = "manual" THEN "none" ELSE lookup
         lastRun == IF looked = "ok" THEN LastRun(schLog) ELSE <<>>
         run     == ShouldRun(scheduleType, looked, lastRun, schClock)
     IN  sch' = [sch EXCEPT ![i] =
                   [@ EXCEPT !.schedule_type = scheduleType, !.lookup = looked,
                             !.lastRun = lastRun, !.now = schClock,
                             !.pc = IF run THEN "invoke" ELSE "done",
                             !.status = IF run THEN 0 ELSE 200]]
  /\ UNCHANGED <<schLog, schRuns, schClock>>
  /\ SchFrame

\* supabase.functions.invoke('comprehensive-usd-aggregator'): the call, and
\* whether it returned an error.
SchInvoke(i, outcome) ==
  /\ sch[i].pc = "invoke"
  /\ schRuns' = schRuns \cup {[by |-> i, schedule_type |-> sch[i].schedule_type,
                                 at |-> schClock]}
  /\ sch' = [sch EXCEPT ![i].invoked = outcome,
                        ![i].pc = IF outcome = "ok" THEN "update" ELSE "catch"]
  /\ UNCHANGED <<schLog, schClock>>
  /\ SchFrame

\* updateSchedulerState, whose insert result is not read, and the 200
\* response.
SchUpdateState(i, outcome) ==
  /\ sch[i].pc = "update"
  /\ schLog' = IF outcome = "ok" THEN Append(schLog, SchRow(i, "completed"))
               ELSE schLog
  /\ sch' = [sch EXCEPT ![i].pc = "done", ![i].status = 200, ![i].success = TRUE,
                        ![i].insertFailed = outcome # "ok"]
  /\ UNCHANGED <<schRuns, schClock>>
  /\ SchFrame

\* catch: the 'failed' row and the 500 response.
SchCatch(i, outcome) ==
  /\ sch[i].pc = "catch"
  /\ schLog' = IF outcome = "ok" THEN Append(schLog, SchRow(i, "failed"))
               ELSE schLog
  /\ sch' = [sch EXCEPT ![i].pc = "done", ![i].status = 500,
                        ![i].insertFailed = outcome # "ok"]
  /\ UNCHANGED <<schRuns, schClock>>
  /\ SchFrame

\* Time passes.
SchTick(t) ==
  /\ t > schClock
  /\ schClock' = t
  /\ UNCHANGED <<sch, schLog, schRuns>>
  /\ SchFrame

NextSch ==
  \/ \E i \in SchInv, ty \in ScheduleTypes, l \in {"ok", "error"} : SchGate(i, ty, l)
  \/ \E i \in SchInv, o \in {"ok", "error"} : SchInvoke(i, o)
  \/ \E i \in SchInv, o \in {"ok", "error"} : SchUpdateState(i, o)
  \/ \E i \in SchInv, o \in {"ok", "error"} : SchCatch(i, o)
  \/ \E t \in ClockValues : SchTick(t)

InitSchOff ==
  /\ sch = [i \in SchInv |-> [SchIdle EXCEPT !.pc = "off"]]
  /\ schLog = <<>>
  /\ schRuns = {}
  /\ schClock = 0

InitSchOn ==
  /\ sch = [i \in SchInv |-> SchIdle]
  /\ schLog = <<>>
  /\ schRuns = {}
  /\ schClock = 0

\* ===================================================================
\* The treasury manager: add_real_money and consolidate_all
\* ===================================================================
\* let moneyToAdd = 10000
DEFAULT_MONEY_TO_ADD == 10000

\* moneyToAdd: the amount of the body when it is a positive finite number.
MoneyToAdd(amount) ==
  IF amount # <<>> /\ amount[1] > 0 THEN amount[1] ELSE DEFAULT_MONEY_TO_ADD

\* earnings.reduce((sum, e) => sum + Number(e.amount), 0), the rows being a
\* function from ids to amounts.
EarningsTotal(earnings) == SetSum(DOMAIN earnings, earnings)

\* delete().in("id", earningsIds)
EarningsKept(earnings, earningsIds) == earnings
EarningsAfterDelete(earnings, earningsIds) ==
  [id \in DOMAIN earnings \ earningsIds |-> earnings[id]]

TmIdle == [pc |-> "idle", action |-> "none", amount |-> 0, total |-> 0,
           seen |-> <<>>, ids |-> {}, status |-> 0, ops |-> 0,
           fresh |-> TRUE, before |-> <<>>,
           prev |-> [action |-> "none", status |-> 0]]

TmFrame ==
  UNCHANGED <<aggVars, a2sVars, csiVars, pnVars, bwVars, schVars, ppVars, fxVars, akVars,
              wpVars, areVars>>

\* The catch of the handler: the 500 response.
TmThrow == tm' = [tm EXCEPT !.pc = "idle", !.status = 500, !.ops = @ + 1]
\* The 200 response that follows either function.
TmReturn == tm' = [tm EXCEPT !.pc = "idle", !.status = 200, !.ops = @ + 1]

\* serve handler: the action of the body and, for add_real_money, moneyToAdd.
TmBegin(action, amount) ==
  /\ tm.pc = "idle" /\ tm.ops < MaxOps
  /\ tm' = [tm EXCEPT !.pc = IF action = "add_real_money" THEN "account" ELSE "app",
                      !.action = action, !.amount = MoneyToAdd(amount),
                      !.total = 0, !.seen = <<>>, !.ids = {}, !.status = 0,
                      !.before = <<tmStore>>,
                      !.prev = [action |-> tm.action, status |-> tm.status]]
  /\ UNCHANGED tmStore
  /\ TmFrame

\* consolidateAllMoneyToTreasury: the select of application_balance.
TmReadApp(outcome) ==
  /\ tm.pc = "app"
  /\ IF outcome = "error" THEN TmThrow
     ELSE IF NumberOr0(tmStore.app) > 0
     THEN tm' = [tm EXCEPT !.pc = "zero_app", !.total = @ + tmStore.app[1]]
     ELSE tm' = [tm EXCEPT !.pc = "earnings"]
  /\ UNCHANGED tmStore
  /\ TmFrame

\* Reset application balance to zero.
TmZeroApp(outcome) ==
  /\ tm.pc = "zero_app"
  /\ IF outcome = "error"
     THEN TmThrow /\ UNCHANGED tmStore
     ELSE /\ tm' = [tm EXCEPT !.pc = "earnings"]
          /\ tmStore' = [tmStore EXCEPT !.app = <<0>>]
  /\ TmFrame

\* Fetch all earnings.
TmReadEarnings(outcome) ==
  /\ tm.pc = "earnings"
  /\ IF outcome = "error" THEN TmThrow
     ELSE IF DOMAIN tmStore.earnings # {}
     THEN tm' = [tm EXCEPT !.pc = "delete", !.ids = DOMAIN tmStore.earnings,
                           !.total = @ + EarningsTotal(tmStore.earnings)]
     ELSE tm' = [tm EXCEPT !.pc = "consolidated"]
  /\ UNCHANGED tmStore
  /\ TmFrame

\* Mark earnings as consolidated by deleting them.
TmDeleteEarnings(outcome) ==
  /\ tm.pc = "delete"
  /\ IF outcome = "error"
     THEN TmThrow /\ UNCHANGED tmStore
     ELSE /\ tm' = [tm EXCEPT !.pc = "consolidated"]
          /\ tmStore' = [tmStore EXCEPT
                           !.earnings = EarningsAfterDelete(@, tm.ids)]
  /\ TmFrame

\* if (totalToConsolidate > 0) await addRealMoneyToTreasury(...)
TmConsolidated ==
  /\ tm.pc = "consolidated"
  /\ IF tm.total > 0
     THEN tm' = [tm EXCEPT !.pc = "account", !.amount = tm.total]
     ELSE TmReturn
  /\ UNCHANGED tmStore
  /\ TmFrame

\* addRealMoneyToTreasury: the select of the active operating account.
TmReadAccount(outcome) ==
  /\ tm.pc = "account"
  /\ IF outcome = "error" \/ Len(tmStore.treasury) > 1 THEN TmThrow
     ELSE tm' = [tm EXCEPT !.pc = "write",
                           !.seen = IF tmStore.treasury = <<>> THEN <<>>
                                    ELSE <<tmStore.treasury[1]>>]
  /\ UNCHANGED tmStore
  /\ TmFrame

\* addRealMoneyToTreasury: the insert of a new account, or the update of
\* current_balance and available_balance of the account read.
TmWriteAccount(outcome) ==
  /\ tm.pc = "write"
  /\ IF outcome = "error"
     THEN TmThrow /\ UNCHANGED tmStore
     ELSE /\ tm' = [tm EXCEPT !.pc = "movement"]
          /\ tmStore' =
               [tmStore EXCEPT !.treasury =
                  IF tm.seen = <<>>
                  THEN Append(@, [current_balance |-> tm.amount,
                                  available_balance |-> tm.amount])
                  ELSE [@ EXCEPT ![1] =
                          [current_balance |-> tm.seen[1].current_balance + tm.amount,
                           available_balance |->
                             tm.seen[1].available_balance + tm.amount]]]
  /\ TmFrame

\* Log the addition as a movement.
TmLogDeposit(outcome) ==
  /\ tm.pc = "movement"
  /\ IF outcome = "error"
     THEN TmThrow /\ UNCHANGED tmStore
     ELSE /\ TmReturn
          /\ tmStore' = [tmStore EXCEPT !.movements = Append(@, tm.amount)]
  /\ TmFrame

\* A request of ai-content-api is paid for: one more earnings row.
TmEarn(id, amount) ==
  /\ tm.pc = "idle" /\ tm.ops < MaxOps
  /\ id \notin DOMAIN tmStore.earnings
  /\ tmStore' = [tmStore EXCEPT !.earnings =
                   [x \in DOMAIN @ \cup {id} |-> IF x = id THEN amount ELSE @[x]]]
  /\ tm' = [tm EXCEPT !.action = "none", !.status = 0]
  /\ TmFrame

NextTM ==
  \/ \E ac \in {"add_real_money", "consolidate_all"}, am \in { <<>>, <<-5>>, <<10>> } :
       TmBegin(ac, am)
  \/ \E o \in {"ok", "error"} : TmReadApp(o)
  \/ \E o \in {"ok", "error"} : TmZeroApp(o)
  \/ \E o \in {"ok", "error"} : TmReadEarnings(o)
  \/ \E o \in {"ok", "error"} : TmDeleteEarnings(o)
  \/ TmConsolidated
  \/ \E o \in {"ok", "error"} : TmReadAccount(o)
  \/ \E o \in {"ok", "error"} : TmWriteAccount(o)
  \/ \E o \in {"ok", "error"} : TmLogDeposit(o)
  \/ \E id \in {1, 2} : TmEarn(id, 5 * id)

NoStore == [treasury |-> <<>>, movements |-> <<>>, app |-> <<>>, earnings |-> <<>>]

InitTMOff ==
  /\ tm = [TmIdle EXCEPT !.pc = "off"]
  /\ tmStore = NoStore

InitTMOn ==
  /\ tmStore \in { [NoStore EXCEPT !.app = a, !.treasury = t] :
                     a \in { <<>>, <<0>>, <<40>> },
                     t \in { <<>>, << [current_balance |-> 100,
                                       available_balance |-> 100] >> } }
  /\ tm = [TmIdle EXCEPT !.fresh = tmStore.treasury = <<>>]

\* ===================================================================
\* The production Stripe payout flow
\* ===================================================================
\* if (balance.total < 1): $1.00, in cents.
PP_MIN_CENTS == 100

\* .eq('status', 'completed'): the ids of the rows a select or an update
\* with this filter reaches.
CompletedIds(tx) == { id \in DOMAIN tx : tx[id].status = "completed" }

PpIdle == [pc |-> "idle", env |-> "ok", included |-> {}, revenue_portion |-> 0,
           balance_portion |-> 0, total |-> 0, paid |-> FALSE,
           marked |-> {}, zeroed |-> <<>>, status |-> 0, readFailed |-> FALSE]

PpFrame ==
  UNCHANGED <<aggVars, a2sVars, csiVars, pnVars, bwVars, schVars, tmVars, fxVars, akVars,
              wpVars, areVars>>

\* serve handler: the STRIPE_SECRET_KEY test, analyzeAllRevenueSources and
\* calculateTransferableBalance, whose selects read data only: a failed
\* select counts as no rows, or as a balance of 0.
PpCalculate(txRead, balRead) ==
  /\ ppInv.pc = "idle"
  /\ IF ppInv.env = "no_key"
     THEN ppInv' = [ppInv EXCEPT !.pc = "done", !.status = 500]
     ELSE LET ids == IF txRead = "ok" THEN CompletedIds(ppStore.tx) ELSE {}
              rev == SetSum(ids, [id \in ids |-> ppStore.tx[id].amount])
              bal == IF balRead = "ok" THEN NumberOr0(ppStore.app) ELSE 0
          IN  ppInv' = [ppInv EXCEPT !.pc = "execute", !.included = ids,
                               !.revenue_portion = rev, !.balance_portion = bal,
                               !.total = rev + bal,
                               !.readFailed = txRead # "ok" \/ balRead # "ok"]
  /\ UNCHANGED <<ppStore, ppPayouts>>
  /\ PpFrame

\* executeRealStripePayout, and the 400 response when it reports no success.
PpExecute(outcome, availableAmount) ==
  /\ ppInv.pc = "execute"
  /\ IF ppInv.total < PP_MIN_CENTS \/ outcome = "throw" \/ availableAmount < ppInv.total
     THEN /\ ppInv' = [ppInv EXCEPT !.pc = "done", !.status = 400]
          /\ UNCHANGED ppPayouts
     ELSE /\ ppInv' = [ppInv EXCEPT !.pc = "log", !.paid = TRUE]
          /\ ppPayouts' = Append(ppPayouts, ppInv.total)
  /\ UNCHANGED ppStore
  /\ PpFrame

\* updateComplianceRecords: the insert into autonomous_revenue_transfer_logs.
PpInsertLog ==
  /\ ppInv.pc = "log"
  /\ ppInv' = [ppInv EXCEPT !.pc = "mark"]
  /\ UNCHANGED <<ppStore, ppPayouts>>
  /\ PpFrame

\* updateComplianceRecords: mark all transferred transactions; the result of
\* the update is not read.
PpMark(outcome) ==
  /\ ppInv.pc = "mark"
  /\ LET ids == IF outcome = "ok" THEN CompletedIds(ppStore.tx) ELSE {}
     IN  /\ ppInv' = [ppInv EXCEPT !.pc = "zero", !.marked = ids]
         /\ ppStore' = [ppStore EXCEPT !.tx =
                          [id \in DOMAIN @ |->
                             IF id \in ids THEN [@[id] EXCEPT !.status = "transferred"]
                             ELSE @[id]]]
  /\ UNCHANGED ppPayouts
  /\ PpFrame

\* updateComplianceRecords: reset application balance; then the 200 response.
PpZeroBalance(outcome) ==
  /\ ppInv.pc = "zero"
  /\ IF outcome = "ok" /\ ppStore.app # <<>>
     THEN /\ ppInv' = [ppInv EXCEPT !.pc = "done", !.status = 200, !.zeroed = ppStore.app]
          /\ ppStore' = [ppStore EXCEPT !.app = <<0>>]
     ELSE /\ ppInv' = [ppInv EXCEPT !.pc = "done", !.status = 200]
          /\ UNCHANGED ppStore
  /\ UNCHANGED ppPayouts
  /\ PpFrame

\* Another function records a completed revenue transaction.
PpRevenueArrives(id, amount) ==
  /\ ppInv.pc \notin {"off", "done"}
  /\ ppStore.arrivals < MaxArrivals
  /\ id \notin DOMAIN ppStore.tx
  /\ ppStore' = [ppStore EXCEPT
                   !.arrivals = @ + 1,
                   !.tx = [x \in DOMAIN @ \cup {id} |->
                             IF x = id THEN [amount |-> amount, status |-> "completed"]
                             ELSE @[x]]]
  /\ UNCHANGED <<ppInv, ppPayouts>>
  /\ PpFrame

\* Another function adds to application_balance.
PpBalanceGrows(amount) ==
  /\ ppInv.pc \notin {"off", "done"}
  /\ ppStore.arrivals < MaxArrivals
  /\ ppStore' = [ppStore EXCEPT !.arrivals = @ + 1,
                                !.app = <<NumberOr0(@) + amount>>]
  /\ UNCHANGED <<ppInv, ppPayouts>>
  /\ PpFrame

NextPP ==
  \/ \E t \in {"ok", "error"}, b \in {"ok", "error"} : PpCalculate(t, b)
  \/ \E o \in {"ok", "throw"}, a \in {0, 100000} : PpExecute(o, a)
  \/ PpInsertLog
  \/ \E o \in {"ok", "error"} : PpMark(o)
  \/ \E o \in {"ok", "error"} : PpZeroBalance(o)
  \/ PpRevenueArrives(3, 40)
  \/ PpBalanceGrows(25)

InitPPOff ==
  /\ ppInv = [PpIdle EXCEPT !.pc = "off"]
  /\ ppStore = [tx |-> <<>>, app |-> <<>>, arrivals |-> 0]
  /\ ppPayouts = <<>>

\* One or two revenue transactions of $1.50 and $0.40, completed or
\* pending, and an application balance of nothing, $0.30 or $1.50.
InitPPOn ==
  /\ ppInv \in { [PpIdle EXCEPT !.env = e] : e \in {"ok", "no_key"} }
  /\ ppStore \in
       { [tx |-> t, app |-> a, arrivals |-> 0] :
           t \in { << [amount |-> 150, status |-> s1] >> : s1 \in {"completed", "pending"} }
                 \cup { << [amount |-> 150, status |-> s1],
                           [amount |-> 40, status |-> s2] >> :
                          s1 \in {"completed", "pending"},
                          s2 \in {"completed", "pending"} },
           a \in { <<>>, <<30>>, <<150>> } }
  /\ ppPayouts = <<>>

\* ===================================================================
\* The fix-failed-transfers workflow
\* ===================================================================
\* .lt("retry_count", 3)
MAX_FIX_RETRIES == 3

Transfers == {1, 2}

\* .eq("status", "failed").lt("retry_count", 3).gte("created_at", 7 days ago):
\* a null retry_count satisfies no comparison.
SelectedUpTo(row) ==
  /\ row.status = "failed"
  /\ row.retry_count # <<>> /\ row.retry_count[1] <= MAX_FIX_RETRIES
  /\ row.recent
Selected(row) ==
  /\ row.status = "failed"
  /\ row.retry_count # <<>> /\ row.retry_count[1] < MAX_FIX_RETRIES
  /\ row.recent

\* .order("amount", {ascending: false}): the selected rows as read, largest
\* amount first.
RECURSIVE ByAmount(_, _)
ByAmount(ids, table) ==
  IF ids = {} THEN <<>>
  ELSE LET t == CHOOSE x \in ids : \A y \in ids : table[y].amount <= table[x].amount
       IN  << [id |-> t, retry_count |-> table[t].retry_count] >>
             \o ByAmount(ids \ {t}, table)

FailedTransfers(table) == ByAmount({ t \in Transfers : Selected(table[t]) }, table)

FxIdle == [pc |-> "idle", env |-> "ok", queue |-> <<>>, runs |-> 0, status |-> 0]

FxFrame ==
  UNCHANGED <<aggVars, a2sVars, csiVars, pnVars, bwVars, schVars, tmVars, ppVars,
              akVars, wpVars, areVars>>

\* serve handler: the STRIPE_SECRET_KEY test, the select of the failed
\* transfers, and the answers when there is nothing to do.
FxSelect(outcome) ==
  /\ fx.pc = "idle" /\ fx.runs < MaxRuns
  /\ fx' = IF fx.env = "no_key" \/ outcome = "error"
           THEN [fx EXCEPT !.status = 500, !.runs = @ + 1]
           ELSE IF FailedTransfers(fxRows) = <<>>
           THEN [fx EXCEPT !.status = 200, !.runs = @ + 1]
           ELSE [fx EXCEPT !.pc = "payout", !.status = 0,
                           !.queue = FailedTransfers(fxRows)]
  /\ UNCHANGED <<fxRows, fxLog>>
  /\ FxFrame

\* After a transfer: the next one, or the end of the loop.
FxNext == [fx EXCEPT !.queue = Tail(@),
                     !.pc = IF Len(fx.queue) > 1 THEN "payout" ELSE "finish"]

\* The loop body: stripe.payouts.create for the transfer.
FxPayout(created) ==
  /\ fx.pc = "payout"
  /\ LET t == Head(fx.queue).id
     IN  /\ fxLog' = [fxLog EXCEPT ![t].submitted = @ + 1,
                                   ![t].created = IF created THEN @ + 1 ELSE @,
                                   ![t].failed = IF created THEN @ ELSE @ + 1]
         /\ fx' = [fx EXCEPT !.pc = IF created THEN "correct" ELSE "count"]
  /\ UNCHANGED fxRows
  /\ FxFrame

\* Update the transfer as corrected; the result of the update is not read.
FxMarkCorrected(outcome) ==
  /\ fx.pc = "correct"
  /\ LET t == Head(fx.queue).id
     IN  IF outcome = "ok"
         THEN /\ fxRows' = [fxRows EXCEPT ![t].status = "corrected"]
              /\ UNCHANGED fxLog
         ELSE /\ fxLog' = [fxLog EXCEPT ![t].lost = TRUE]
              /\ UNCHANGED fxRows
  /\ fx' = FxNext
  /\ FxFrame

\* catch: retry_count: (transfer.retry_count ?? 0) + 1, from the row as it
\* was selected; the result of the update is not read.
FxCountRetry(outcome) ==
  /\ fx.pc = "count"
  /\ LET t == Head(fx.queue).id
         n == NumberOr0(Head(fx.queue).retry_count) + 1
     IN  IF outcome = "ok"
         THEN /\ fxRows' = [fxRows EXCEPT ![t].retry_count = <<n>>]
              /\ UNCHANGED fxLog
         ELSE /\ fxLog' = [fxLog EXCEPT ![t].lost = TRUE]
              /\ UNCHANGED fxRows
  /\ fx' = FxNext
  /\ FxFrame

\* Log the workflow execution, and the 200 response.
FxFinish ==
  /\ fx.pc = "finish"
  /\ fx' = [fx EXCEPT !.pc = "idle", !.status = 200, !.runs = @ + 1]
  /\ UNCHANGED <<fxRows, fxLog>>
  /\ FxFrame

NextFix ==
  \/ \E o \in {"ok", "error"} : FxSelect(o)
  \/ \E c \in BOOLEAN : FxPayout(c)
  \/ \E o \in {"ok", "error"} : FxMarkCorrected(o)
  \/ \E o \in {"ok", "error"} : FxCountRetry(o)
  \/ FxFinish

NoFixLog == [t \in Transfers |->
               [submitted |-> 0, created |-> 0, failed |-> 0, lost |-> FALSE]]

InitFixOff ==
  /\ fx = [FxIdle EXCEPT !.pc = "off"]
  /\ fxRows = [t \in Transfers |->
                 [status |-> "pending", retry_count |-> <<>>, amount |-> 0,
                  recent |-> FALSE, retry0 |-> 0]]
  /\ fxLog = NoFixLog

\* Transfer 1 of $3.00 has failed and was not retried yet; transfer 2 of
\* $5.00 is in any state.
InitFixOn ==
  /\ fx \in { [FxIdle EXCEPT !.env = e] : e \in {"ok", "no_key"} }
  /\ fxRows \in
       [Transfers ->
          { [status |-> st, retry_count |-> rc, amount |-> 500, recent |-> rt,
             retry0 |-> NumberOr0(rc)] :
              st \in {"failed", "completed"}, rc \in { <<>>, <<2>>, <<3>> },
              rt \in BOOLEAN }
          \cup { [status |-> "failed", retry_count |-> <<0>>, amount |-> 300,
                  recent |-> TRUE, retry0 |-> 0] }]
  /\ fxRows[1].amount = 300 /\ fxRows[2].amount = 500
  /\ fxLog = NoFixLog

\* ===================================================================
\* ai-content-api: the usage limit of an API key
\* ===================================================================
Requests == 1..NumRequests

AkIdle == [pc |-> "new", keyData |-> <<>>, status |-> 0, lost |-> FALSE]

AkFrame ==
  UNCHANGED <<aggVars, a2sVars, csiVars, pnVars, bwVars, schVars, tmVars, ppVars,
              fxVars, wpVars, areVars>>

\* keyData.usage_limit && keyData.usage_count >= keyData.usage_limit: a null
\* or zero usage_limit is no limit.
LimitReached(keyData) ==
  /\ NumberOr0(keyData.usage_limit) # 0
  /\ keyData.usage_count >= NumberOr0(keyData.usage_limit)

\* The select of the api_keys row by key_hash, and the test of the limit:
\* 429, or the request goes on under the key. Without keyData the request
\* goes on without a key.
AkCheckKey(r, outcome) ==
  /\ ak[r].pc = "new"
  /\ ak' = [ak EXCEPT ![r] =
       IF outcome = "error" THEN [@ EXCEPT !.pc = "no_key"]
       ELSE IF LimitReached(akKey)
       THEN [@ EXCEPT !.pc = "rejected", !.status = 429, !.keyData = <<akKey>>]
       ELSE [@ EXCEPT !.pc = "increment", !.keyData = <<akKey>>]]
  /\ UNCHANGED akKey
  /\ AkFrame

\* Increment usage count: usage_count: keyData.usage_count + 1, from the
\* row as it was read; the result of the update is not read.
AkIncrement(r, outcome) ==
  /\ ak[r].pc = "increment"
  /\ akKey' = IF outcome = "ok"
              THEN [akKey EXCEPT !.usage_count = ak[r].keyData[1].usage_count + 1]
              ELSE akKey
  /\ ak' = [ak EXCEPT ![r].pc = "accepted", ![r].lost = (outcome # "ok")]
  /\ AkFrame

NextAK ==
  \/ \E r \in Requests, o \in {"ok", "error"} : AkCheckKey(r, o)
  \/ \E r \in Requests, o \in {"ok", "error"} : AkIncrement(r, o)

InitAKOff ==
  /\ ak = [r \in Requests |-> [AkIdle EXCEPT !.pc = "off"]]
  /\ akKey = [usage_count |-> 0, usage_limit |-> <<>>]

\* A key that was not used yet, with or without a limit.
InitAKOn ==
  /\ ak = [r \in Requests |-> AkIdle]
  /\ akKey \in { [usage_count |-> 0, usage_limit |-> l] :
                   l \in { <<>>, <<0>>, <<1>>, <<2>> } }

\* ===================================================================
\* RevenueWorkerManager: scaling a worker pool
\* ===================================================================
Max(a, b) == IF a >= b THEN a ELSE b

\* Math.ceil(pendingTasks / 10)
MathCeilTenth(pendingTasks) == (pendingTasks + 9) \div 10

\* autoScaleWorkers: Math.min(pool.max_workers, Math.max(1, ceil(tasks / 10)))
OptimalWorkers(pool, pendingTasks) ==
  Min(pool.max_workers, Max(1, MathCeilTenth(pendingTasks)))

\* scaleWorkerPool: up is Math.min(max_workers, current_workers + 5), down is
\* Math.max(1, current_workers - 2).
NewCountUnclamped(pool, direction) ==
  IF direction = "up" THEN pool.current_workers + 5
  ELSE pool.current_workers - 2
NewCount(pool, direction) ==
  IF direction = "up" THEN Min(pool.max_workers, pool.current_workers + 5)
  ELSE Max(1, pool.current_workers - 2)

PendingTaskCounts == {0, 5, 10, 25, 95}

WpFrame ==
  UNCHANGED <<aggVars, a2sVars, csiVars, pnVars, bwVars, schVars, tmVars, ppVars,
              fxVars, akVars, areVars>>

\* loadWorkerData: the pool of the component's state becomes the row, unless
\* the select fails.
WpReload(state, row, outcome) == IF outcome = "ok" THEN row ELSE state

\* scaleWorkerPool(poolId, direction): the new count from the pool in the
\* component's state, the update (an error is thrown to the catch), and the
\* reload.
ScaleWorkerPool(direction, outcome, reload) ==
  /\ wp.pc = "ready"
  /\ LET newCount == NewCount(wp.pool, direction)
         row == [wpStore EXCEPT !.current_workers = newCount]
     IN  IF outcome = "ok"
         THEN /\ wpStore' = row
              /\ wp' = [wp EXCEPT !.written = <<newCount>>, !.last = direction,
                                  !.before = wp.pool.current_workers,
                                  !.pool = WpReload(wp.pool, row, reload)]
         ELSE /\ wp' = [wp EXCEPT !.last = "failed"]
              /\ UNCHANGED wpStore
  /\ WpFrame

\* autoScaleWorkers: the count of pending tasks, the update of the pool when
\* the optimal number differs from the one in the component's state (an
\* error is reported and the function goes on), and the reload.
AutoScaleWorkers(pendingTasks, tasks, outcome, reload) ==
  /\ wp.pc = "ready"
  /\ LET optimalWorkers == OptimalWorkers(wp.pool, pendingTasks)
         row == [wpStore EXCEPT !.current_workers = optimalWorkers]
     IN  IF tasks = "error"
         THEN /\ wp' = [wp EXCEPT !.last = "failed"]
              /\ UNCHANGED wpStore
         ELSE IF optimalWorkers # wp.pool.current_workers /\ outcome = "ok"
         THEN /\ wpStore' = row
              /\ wp' = [wp EXCEPT !.written = <<optimalWorkers>>, !.last = "auto",
                                  !.before = wp.pool.current_workers,
                                  !.pool = WpReload(wp.pool, row, reload)]
         ELSE /\ wp' = [wp EXCEPT !.last = "auto_none",
                                  !.pool = WpReload(wp.pool, wpStore, reload)]
              /\ UNCHANGED wpStore
  /\ WpFrame

NextWP ==
  \/ \E d \in {"up", "down"}, o \in {"ok", "error"}, l \in {"ok", "error"} :
       ScaleWorkerPool(d, o, l)
  \/ \E n \in PendingTaskCounts, t \in {"ok", "error"}, o \in {"ok", "error"},
        l \in {"ok", "error"} :
       AutoScaleWorkers(n, t, o, l)

InitWPOff ==
  /\ wp = [pc |-> "off", pool |-> [current_workers |-> 1, max_workers |-> 1],
           written |-> <<>>, last |-> "none", before |-> 0]
  /\ wpStore = [current_workers |-> 1, max_workers |-> 1]

\* A pool with max_workers >= 1 and 1 <= current_workers <= max_workers, as
\* the component has loaded it.
InitWPOn ==
  /\ wpStore \in { [current_workers |-> c, max_workers |-> x] :
                     x \in 1..MaxPool, c \in 1..MaxPool }
  /\ wpStore.current_workers <= wpStore.max_workers
  /\ wp = [pc |-> "ready", pool |-> wpStore, written |-> <<>>, last |-> "none",
           before |-> 0]

\* ===================================================================
\* autonomous-revenue-engine: the payout of the available Stripe balance
\* ===================================================================
\* results.stripe_balance >= 1.00
ENGINE_MIN_CENTS == 100

\* The available USD amounts Stripe reports, in cents; <<>> is a balance
\* with no usd entry.
EngineBalances == { <<>>, <<0 - 50>>, <<0>>, <<99>>, <<100>>, <<115>>, <<250>> }

\* The amounts of 0..300 cents c for which the double (c / 100) * 100 lies
\* below c.
RoundedDownCents ==
  {29, 57, 58, 113, 114, 115, 116, 201, 203, 205, 207, 226, 228, 230, 232, 251,
   253, 255}

\* Math.floor(results.stripe_balance * 100), where stripe_balance is
\* amount / 100 in double arithmetic.
FloorOfDollars(cents) == IF cents \in RoundedDownCents THEN cents - 1 ELSE cents

\* if (results.stripe_balance >= 1.00)
AvailableForPayoutAlways(cents) == cents >= 0
AvailableForPayout(cents) == cents >= ENGINE_MIN_CENTS

\* .from('autopilot_config').select('*').eq('enabled', true).single(): the
\* row when exactly one row is enabled and the call succeeds.
ConfigFound(enabledRows, outcome) == outcome = "ok" /\ enabledRows = 1

AreIdle == [pc |-> "idle", stripe_balance |-> 0, enabled |-> 0, runs |-> 0]

AreFrame ==
  UNCHANGED <<aggVars, a2sVars, csiVars, pnVars, bwVars, schVars, tmVars, ppVars,
              fxVars, akVars, wpVars>>

\* Section 1 up to the test of the balance: the key, stripe.balance.retrieve,
\* the subscriptions and the charges (any of them may throw to the catch of
\* the section).
AreCheckBalance(key, outcome, usd) ==
  /\ are.pc = "idle" /\ are.runs < MaxEngineRuns
  /\ are' = IF ~key \/ outcome = "error"
            THEN [are EXCEPT !.pc = "rest", !.stripe_balance = 0, !.enabled = 0]
            ELSE IF outcome = "error_after_balance"
            THEN [are EXCEPT !.pc = "rest", !.stripe_balance = NumberOr0(usd),
                             !.enabled = 0]
            ELSE [are EXCEPT !.stripe_balance = NumberOr0(usd), !.enabled = 0,
                             !.pc = IF AvailableForPayout(NumberOr0(usd))
                                    THEN "config" ELSE "rest"]
  /\ UNCHANGED <<areConfig, arePayouts>>
  /\ AreFrame

\* Check if auto-payout is enabled.
AreReadConfig(outcome) ==
  /\ are.pc = "config"
  /\ are' = IF ConfigFound(areConfig, outcome)
            THEN [are EXCEPT !.pc = "payout", !.enabled = areConfig]
            ELSE [are EXCEPT !.pc = "rest"]
  /\ UNCHANGED <<areConfig, arePayouts>>
  /\ AreFrame

\* stripe.payouts.create({amount: payoutAmount, ...}); a rejection goes to
\* the inner catch.
AreCreatePayout(outcome) ==
  /\ are.pc = "payout"
  /\ arePayouts' = Append(arePayouts,
                          [amount |-> FloorOfDollars(are.stripe_balance),
                           available |-> are.stripe_balance,
                           enabled |-> are.enabled,
                           created |-> (outcome = "ok")])
  /\ are' = [are EXCEPT !.pc = IF outcome = "ok" THEN "log" ELSE "rest"]
  /\ UNCHANGED areConfig
  /\ AreFrame

\* Log the payout: the insert into autopilot_logs, whose result is not read.
AreLogPayout ==
  /\ are.pc = "log"
  /\ are' = [are EXCEPT !.pc = "rest"]
  /\ UNCHANGED <<areConfig, arePayouts>>
  /\ AreFrame

\* Sections 2 and later, and the response: none of them touches Stripe
\* payouts or autopilot_config.
AreRest ==
  /\ are.pc = "rest"
  /\ are' = [are EXCEPT !.pc = "idle", !.runs = @ + 1]
  /\ UNCHANGED <<areConfig, arePayouts>>
  /\ AreFrame

\* Between invocations the operator enables or disables autopilot rows.
AreSetConfig(enabledRows) ==
  /\ are.pc = "idle" /\ are.runs < MaxEngineRuns
  /\ areConfig # enabledRows
  /\ areConfig' = enabledRows
  /\ UNCHANGED <<are, arePayouts>>
  /\ AreFrame

NextARE ==
  \/ \E k \in BOOLEAN, o \in {"ok", "error", "error_after_balance"},
        usd \in EngineBalances :
       AreCheckBalance(k, o, usd)
  \/ \E o \in {"ok", "error"} : AreReadConfig(o)
  \/ \E o \in {"ok", "error"} : AreCreatePayout(o)
  \/ AreLogPayout
  \/ AreRest
  \/ \E n \in 0..2 : AreSetConfig(n)

InitAREOff ==
  /\ are = [AreIdle EXCEPT !.pc = "off"]
  /\ areConfig = 0
  /\ arePayouts = <<>>

InitAREOn ==
  /\ are = AreIdle
  /\ areConfig \in 0..2
  /\ arePayouts = <<>>

InitMoreOff ==
  InitTMOff /\ InitPPOff /\ InitFixOff /\ InitAKOff /\ InitWPOff /\ InitAREOff

InitRestOff == InitPNOff /\ InitBWOff /\ InitSchOff /\ InitMoreOff

\* ------------------------------------------------------ initial states
\* Credentials present in Deno.env.
Env(st, pp, mt, bk) == [stripe |-> st, paypal |-> pp, mt |-> mt, bank |-> bk]
Envs == { Env(st, pp, mt, bk) : st \in BOOLEAN, pp \in BOOLEAN,
                                mt \in BOOLEAN, bk \in BOOLEAN }
\* The environments under which more than one invocation is explored.
OverlapEnvs == { Env(TRUE, FALSE, FALSE, FALSE), Env(FALSE, TRUE, FALSE, FALSE) }

InitInvocations ==
  /\ scanIdx = [i \in Inv |-> 1]
  /\ sources = [i \in Inv |-> <<>>]
  /\ totalAmount = [i \in Inv |-> 0]
  /\ breakdown = [i \in Inv |-> <<>>]
  /\ scanErrors = [i \in Inv |-> <<>>]
  /\ results = [i \in Inv |-> NoResults]
  /\ stripeSeen = [i \in Inv |-> -1]
  /\ zeroPos = [i \in Inv |-> <<1, 1>>]
  /\ auditLog = [i \in Inv |-> <<>>]
  /\ response = [i \in Inv |-> NoResponse]
  /\ saved = [i \in Inv |-> "none"]
  /\ extPayouts = <<>>
  /\ zeroed = [i \in Inv |-> {}]
  /\ consumedValue = [i \in Inv |-> 0]

\* Two treasury accounts of $0.30 and $0.20, the second possibly inactive, an
\* application balance of $0.45 or nothing and one earnings row of $0.05; one
\* invocation under any set of credentials and with datastore faults, or
\* overlapping invocations under OverlapEnvs and a datastore that answers.
InitAgg ==
  /\ rows = AllRows
  /\ active \in { {<<"treasury_accounts", 1>>}, TreasuryRows }
  /\ ledger \in { [r \in AllRows |-> IF r = AppRow THEN a
                                     ELSE IF r = EarningsRow THEN <<5>>
                                     ELSE IF r[2] = 1 THEN <<30>> ELSE <<20>>] :
                  a \in { <<0>>, <<45>> } }
  /\ ledger0 = ledger
  /\ env \in Envs
  /\ pc \in { p \in [Inv -> {"idle", "off"}] :
                /\ p[1] = "idle"
                /\ \A i \in Inv : i > 1 /\ p[i] = "idle" =>
                     p[i - 1] = "idle" /\ env \in OverlapEnvs }
  /\ dbFaults = (\A i \in Inv : i > 1 => pc[i] = "off")
  /\ InitInvocations
  /\ InitA2SOff
  /\ InitCSIOff
  /\ InitRestOff

\* The scan alone, over every combination of null, negative, zero and positive
\* balances, with and without the single application_balance row.
Col == { <<>>, <<-5>>, <<0>>, <<30>>, <<45>> }

InitScan ==
  /\ rows \in { TreasuryRows \cup {EarningsRow} \cup S : S \in SUBSET {AppRow} }
  /\ active \in { {<<"treasury_accounts", 1>>}, TreasuryRows }
  /\ ledger \in [rows -> Col]
  /\ ledger0 = ledger
  /\ env = Env(TRUE, FALSE, FALSE, FALSE)
  /\ dbFaults = TRUE
  /\ pc = [i \in Inv |-> IF i = 1 THEN "idle" ELSE "off"]
  /\ InitInvocations
  /\ InitA2SOff
  /\ InitCSIOff
  /\ InitRestOff

NextScan ==
  \/ Start(1)
  \/ \E o \in {"ok", "error", "throw"} : ScanTable(1, o)
  \/ ScanCompleted(1)

SpecScan == InitScan /\ [][NextScan]_vars

\* Two invocations scan a datastore that nothing writes to.
InitTwoScans ==
  /\ rows = AllRows
  /\ active \in { {<<"treasury_accounts", 1>>}, TreasuryRows }
  /\ ledger \in [rows -> { <<0>>, <<5>>, <<30>> }]
  /\ ledger0 = ledger
  /\ env = Env(TRUE, FALSE, FALSE, FALSE)
  /\ dbFaults = TRUE
  /\ pc = [i \in Inv |-> "idle"]
  /\ InitInvocations
  /\ InitA2SOff
  /\ InitCSIOff
  /\ InitRestOff

NextTwoScans ==
  \E i \in Inv :
    \/ Start(i)
    \/ \E o \in {"ok", "error", "throw"} : ScanTable(i, o)
    \/ ScanCompleted(i)

SpecTwoScans == InitTwoScans /\ [][NextTwoScans]_vars

NextAgg ==
  \E i \in Inv :
    \/ Start(i)
    \/ \E o \in {"ok", "error", "throw"} : ScanTable(i, o)
    \/ ScanCompleted(i)
    \/ \E o \in {"ok", "throw_balance", "throw_payout"}, b \in StripeBalances :
         StripeBlock(i, o, b)
    \/ \E o \in {"ok", "fail", "token_fail", "throw"} : PayPalBlock(i, o)
    \/ \E o \in {"ok", "fail", "throw"} : ModernTreasuryBlock(i, o)
    \/ \E o \in {"ok", "throw"} : BankBlock(i, o)
    \/ \E o \in {"ok", "error", "throw"} : ZeroRecord(i, o)
    \/ \E o \in {"ok", "fail"} : SaveAndRespond(i, o)
    \/ Stop(i)

Init == InitAgg
Next == NextAgg
Spec == Init /\ [][Next]_vars

\* One invocation over two sources of $0.30 and $0.45 (the active treasury
\* account and the application balance), under any set of credentials and a
\* datastore that answers.
InitScenarioA ==
  /\ rows = AllRows
  /\ active = { <<"treasury_accounts", 1>> }
  /\ ledger = [r \in AllRows |-> IF r = AppRow THEN <<45>>
                                 ELSE IF r = <<"treasury_accounts", 1>> THEN <<30>>
                                 ELSE <<0>>]
  /\ ledger0 = ledger
  /\ env \in Envs
  /\ pc = [i \in Inv |-> IF i = 1 THEN "idle" ELSE "off"]
  /\ dbFaults = FALSE
  /\ InitInvocations
  /\ InitA2SOff
  /\ InitCSIOff
  /\ InitRestOff

SpecScenarioA == InitScenarioA /\ [][NextAgg]_vars

\* aggregate_usd_to_stripe alone: no comprehensive-usd-aggregator invocation.
InitAggOff ==
  /\ rows = AllRows
  /\ active = TreasuryRows
  /\ ledger = [r \in AllRows |-> <<0>>]
  /\ ledger0 = ledger
  /\ env = Env(FALSE, FALSE, FALSE, FALSE)
  /\ dbFaults = FALSE
  /\ pc = [i \in Inv |-> "off"]
  /\ InitInvocations

InitA2S == InitAggOff /\ InitA2SOn /\ InitCSIOff /\ InitRestOff
SpecA2S == InitA2S /\ [][NextA2S]_vars

\* aggregate_usd_to_stripe with a retry loop that keeps running: every
\* stripe.transfers.create call returns or throws and every sleep ends.
SpecA2SLive ==
  SpecA2S /\ \A j \in A2SInv :
               WF_vars(\E ok \in BOOLEAN, e \in StripeErrors, c \in BOOLEAN :
                         A2SAttempt(j, ok, e, c))

\* comprehensive-stripe-integration alone.
InitCSI == InitAggOff /\ InitA2SOff /\ InitCSIOn /\ InitRestOff
SpecCSI == InitCSI /\ [][NextCSI]_vars

\* payout_now alone.
InitPN ==
  /\ InitAggOff /\ InitA2SOff /\ InitCSIOff
  /\ InitPNOn /\ InitBWOff /\ InitSchOff /\ InitMoreOff
SpecPN == InitPN /\ [][NextPN]_vars

\* The writers of the balance rows alone.
InitBW ==
  /\ InitAggOff /\ InitA2SOff /\ InitCSIOff
  /\ InitPNOff /\ InitBWOn /\ InitSchOff /\ InitMoreOff

\* The scheduler alone.
InitSch ==
  /\ InitAggOff /\ InitA2SOff /\ InitCSIOff
  /\ InitPNOff /\ InitBWOff /\ InitSchOn /\ InitMoreOff
SpecSch == InitSch /\ [][NextSch]_vars
SpecBW == InitBW /\ [][NextBW]_vars

\* Every function modelled before the last ones is off.
InitOldOff == InitAggOff /\ InitA2SOff /\ InitCSIOff /\ InitPNOff /\ InitBWOff /\ InitSchOff

\* The treasury manager alone.
InitTM ==
  InitOldOff /\ InitTMOn /\ InitPPOff /\ InitFixOff /\ InitAKOff /\ InitWPOff
    /\ InitAREOff
SpecTM == InitTM /\ [][NextTM]_vars

\* The production payout flow alone.
InitPP ==
  InitOldOff /\ InitTMOff /\ InitPPOn /\ InitFixOff /\ InitAKOff /\ InitWPOff
    /\ InitAREOff

\* The fix-failed-transfers workflow alone.
InitFix ==
  InitOldOff /\ InitTMOff /\ InitPPOff /\ InitFixOn /\ InitAKOff /\ InitWPOff
    /\ InitAREOff
SpecFix == InitFix /\ [][NextFix]_vars

\* Concurrent requests to ai-content-api under one key.
InitAK ==
  InitOldOff /\ InitTMOff /\ InitPPOff /\ InitFixOff /\ InitAKOn /\ InitWPOff
    /\ InitAREOff
SpecAK == InitAK /\ [][NextAK]_vars

\* The worker manager scaling one pool.
InitWP ==
  InitOldOff /\ InitTMOff /\ InitPPOff /\ InitFixOff /\ InitAKOff /\ InitWPOn
    /\ InitAREOff
SpecWP == InitWP /\ [][NextWP]_vars

\* autonomous-revenue-engine alone.
InitARE ==
  InitOldOff /\ InitTMOff /\ InitPPOff /\ InitFixOff /\ InitAKOff /\ InitWPOff
    /\ InitAREOn
SpecARE == InitARE /\ [][NextARE]_vars
SpecPP == InitPP /\ [][NextPP]_vars

\* The two aggregators, each on its own datastore.
SpecLedger == (InitAgg \/ InitA2S) /\ [][NextAgg \/ NextA2S]_vars

\* ===================================================================
\* Properties of comprehensive-usd-aggregator
\* ===================================================================
\* The payouts the processors created for invocation i.
PayoutsOf(i) == SelectSeq(extPayouts, LAMBDA e : e.inv = i)

RECURSIVE AmountSum(_)
AmountSum(es) == IF es = <<>> THEN 0 ELSE Head(es).amount + AmountSum(Tail(es))

PaidBy(i) == AmountSum(PayoutsOf(i))

\* The rows whose balances made up invocation i's total_amount.
FundingRows(i) ==
  UNION { { sources[i][k].records[n] : n \in 1..Len(sources[i][k].records) } :
          k \in 1..Len(sources[i]) }

ZeroEntries(i) ==
  SelectSeq(auditLog[i], LAMBDA e : e.action \in {"SOURCE_ZEROED", "ZERO_FAILED",
                                                   "BALANCES_ZEROED"})

\* C1: zeroOutAllSourceBalances runs in an invocation only after a provider
\* payout of that invocation succeeded; an invocation none of whose provider
\* attempts succeeded modifies no source balance.
C1_ZeroOnlyAfterSuccess ==
  \A i \in Inv :
    /\ (pc[i] = "zero" \/ zeroed[i] # {} \/ ZeroEntries(i) # <<>>) =>
         /\ PayoutsOf(i) # <<>>
         /\ results[i].successful_transfers > 0
    /\ PayoutsOf(i) = <<>> =>
         /\ zeroed[i] = {}
         /\ consumedValue[i] = 0
         /\ pc[i] # "zero"

\* An invocation ended with a failed provider attempt, a successful one and
\* zeroed balances.
C1_Witness ==
  \E i \in Inv : /\ pc[i] = "done"
                 /\ zeroed[i] # {}
                 /\ results[i].failed_transfers > 0
                 /\ PayoutsOf(i) # <<>>

\* C2: the first successful processor wins: at most one payout succeeds per
\* invocation and total_transferred never exceeds total_amount.
C2_FirstSuccessWins ==
  \A i \in Inv : /\ Len(PayoutsOf(i)) <= 1
                 /\ results[i].successful_transfers <= 1
                 /\ results[i].total_transferred <= totalAmount[i]

\* C3: two invocations never both submit a payout funded by the same positive
\* ledger balances.
C3_NoSharedFunding ==
  \A i, j \in Inv :
    (i # j /\ PayoutsOf(i) # <<>> /\ PayoutsOf(j) # <<>>) =>
      FundingRows(i) \cap FundingRows(j) = {}

\* The processors an invocation is configured to submit to, in the order of
\* the blocks of transferToAllProviders.
ProviderOrder == << "stripe", "paypal", "modern_treasury", "bank" >>
Configured(p) == CASE p = "stripe" -> env.stripe
                   [] p = "paypal" -> env.paypal
                   [] p = "modern_treasury" -> env.mt
                   [] p = "bank" -> env.stripe /\ env.bank
ConfiguredOrder == SelectSeq(ProviderOrder, Configured)

RejectionActions == { "STRIPE_PAYOUT_FAILED", "STRIPE_INSUFFICIENT_BALANCE",
                      "PAYPAL_PAYOUT_FAILED", "PAYPAL_ERROR",
                      "MODERN_TREASURY_FAILED", "MODERN_TREASURY_ERROR",
                      "BANK_TRANSFER_FAILED" }

RejectionsLogged(i) ==
  LET es == SelectSeq(auditLog[i], LAMBDA e : e.action \in RejectionActions)
  IN  [k \in 1..Len(es) |-> es[k].who]

AllRejected(i) ==
  /\ ConfiguredOrder # <<>>
  /\ results[i].successful_transfers = 0
  /\ \A k \in 1..Len(ConfiguredOrder) : results[i][ConfiguredOrder[k]] = "fail"

\* C5: when every configured processor rejects the payout, the invocation
\* reports overall failure, consumes no source record, and its audit trail
\* holds each processor's rejection in the configured order.
C5_AllRejectedReportsFailure ==
  \A i \in Inv :
    (pc[i] = "done" /\ AllRejected(i)) =>
      /\ response[i].success = FALSE
      /\ zeroed[i] = {}
      /\ RejectionsLogged(i) = ConfiguredOrder

\* C8: once every invocation has ended, the records that funded the payout of
\* an invocation that stopped before consuming them have been consumed.
Quiescent == \A i \in Inv : pc[i] \in {"done", "stopped", "off"}

C8_StoppedInvocationReconciled ==
  Quiescent =>
    \A i \in Inv :
      (pc[i] = "stopped" /\ PayoutsOf(i) # <<>>) =>
        \A r \in FundingRows(i) : NumberOr0(ledger[r]) = 0

\* The total a scan must report: over the tables whose read did not fail, the
\* strictly positive balances of the rows the query returns.
ReadTables(i) ==
  { USD_BALANCE_TABLES[k].table : k \in 1..Len(USD_BALANCE_TABLES) } \
  { scanErrors[i][k] : k \in 1..Len(scanErrors[i]) }

Visible(r) == /\ r \in rows
              /\ \E k \in 1..Len(USD_BALANCE_TABLES) :
                   /\ USD_BALANCE_TABLES[k].table = r[1]
                   /\ (USD_BALANCE_TABLES[k].filter => r \in active)

PositivePart == [r \in rows |-> IF ledger[r] # <<>> /\ ledger[r][1] > 0
                                THEN ledger[r][1] ELSE 0]

ExpectedTotal(i) ==
  SetSum({ r \in rows : Visible(r) /\ r[1] \in ReadTables(i) }, PositivePart)

BreakdownSum(i) == SeqSum([k \in 1..Len(breakdown[i]) |-> breakdown[i][k][2]])

ScanReturned(i) == pc[i] \in {"stripe", "save_no_funds"}

\* C10: scanAllTablesForUSD returns the sum of the strictly positive balance
\* values of the rows read; zero, negative and missing values and tables whose
\* read failed contribute nothing; total_amount is the sum of the breakdown.
C10_ScanTotal ==
  \A i \in Inv :
    ScanReturned(i) =>
      /\ totalAmount[i] = ExpectedTotal(i)
      /\ totalAmount[i] = BreakdownSum(i)
      /\ \A k \in 1..Len(breakdown[i]) :
           breakdown[i][k][1] \in ReadTables(i) /\ breakdown[i][k][2] > 0

\* A scan returned a positive total although one table's read failed and a
\* table that was read holds a negative and a missing balance.
C10_Witness ==
  /\ ScanReturned(1)
  /\ totalAmount[1] > 0
  /\ scanErrors[1] # <<>>
  /\ \E r \in rows : Visible(r) /\ r[1] \in ReadTables(1) /\ ledger[r] = <<-5>>
  /\ \E r \in rows : Visible(r) /\ r[1] \in ReadTables(1) /\ ledger[r] = <<>>

\* What the table at position k of the configuration holds for a reader.
HeldBy(k) == TableTotal(QueryRows(USD_BALANCE_TABLES[k], rows, active), ledger)

Failed(i, k) == \E n \in 1..Len(scanErrors[i]) :
                  scanErrors[i][n] = USD_BALANCE_TABLES[k].table

InBreakdown(i, k) == \E n \in 1..Len(breakdown[i]) :
                       breakdown[i][n][1] = USD_BALANCE_TABLES[k].table

\* C12: a table whose read failed is recorded in scan_errors and contributes
\* nothing, and every other table of the configuration, the ones after a
\* failed table included, is scanned and reported with what it holds.
C12_ScanSurvivesFailures ==
  \A i \in Inv :
    /\ \A n \in 1..Len(scanErrors[i]) :
         \E k \in 1..(scanIdx[i] - 1) : scanErrors[i][n] = USD_BALANCE_TABLES[k].table
    /\ ScanReturned(i) =>
         \A k \in 1..Len(USD_BALANCE_TABLES) :
           IF Failed(i, k) THEN ~InBreakdown(i, k)
           ELSE HeldBy(k) > 0 =>
                  \E n \in 1..Len(breakdown[i]) :
                    breakdown[i][n] = <<USD_BALANCE_TABLES[k].table, HeldBy(k)>>

\* The read of the first table failed and the scan went on to report the
\* balances of a later table.
C12_Witness ==
  /\ ScanReturned(1)
  /\ Failed(1, 1)
  /\ \E k \in 2..Len(USD_BALANCE_TABLES) : InBreakdown(1, k)
  /\ \E k \in 2..Len(USD_BALANCE_TABLES) : Failed(1, k)

\* The audit entries of invocation i whose action is in A.
EntriesIn(i, A) == SelectSeq(auditLog[i], LAMBDA e : e.action \in A)

\* The entries that report the outcome of a submission to a processor.
OutcomeActions == { "STRIPE_PAYOUT_SUCCESS", "PAYPAL_PAYOUT_SUCCESS",
                    "MODERN_TREASURY_SUCCESS", "BANK_TRANSFER_SUCCESS" }
                  \cup RejectionActions

OutcomeEntries(i, p) ==
  SelectSeq(EntriesIn(i, OutcomeActions), LAMBDA e : e.who = p)

TransfersReturned(i) ==
  pc[i] \in {"zero", "save", "stopped"} \/ (pc[i] = "done" /\ response[i].status = 200)

IsPrefix(s, t) == Len(s) <= Len(t) /\ \A k \in 1..Len(s) : s[k] = t[k]

\* C18: every phase transition (scan start, table scan, scan completed, each
\* processor outcome, transfers completed, each source consumption outcome)
\* produces exactly one audit entry of the invocation; entries are appended in
\* the order of the events and never modified or removed.
C18_OneEntryPerTransition ==
  /\ [](\A i \in Inv :
          /\ pc[i] \notin {"idle", "off"} => Len(EntriesIn(i, {"SCAN_STARTED"})) = 1
          /\ ScanReturned(i) \/ TransfersReturned(i) =>
               /\ Len(EntriesIn(i, {"SCAN_COMPLETED"})) = 1
               /\ Len(EntriesIn(i, {"TABLE_SCANNED"})) = Len(breakdown[i])
          /\ TransfersReturned(i) =>
               /\ Len(EntriesIn(i, {"TRANSFERS_COMPLETED"})) = 1
               /\ \A n \in 1..Len(ProviderOrder) :
                    results[i][ProviderOrder[n]] \in {"ok", "fail"}
                      /\ Configured(ProviderOrder[n]) =>
                        Len(OutcomeEntries(i, ProviderOrder[n])) = 1
          /\ Len(EntriesIn(i, {"SOURCE_ZEROED", "ZERO_FAILED"})) = zeroPos[i][1] - 1)
  /\ [][\A i \in Inv : IsPrefix(auditLog[i], auditLog'[i])]_vars

\* C19: once an invocation that started a scan has ended, by its no-funds
\* exit, by completing or by stopping partway after a payout, the audit
\* entries it recorded are durably stored.
C19_AuditDurable ==
  \A i \in Inv :
    (pc[i] \in {"done", "stopped"} /\ auditLog[i] # <<>>) =>
      saved[i] \in {"completed", "no_funds", "failed"}

\* The run of invocation i was free of faults: a processor is configured, the
\* Stripe balance it read, if any, was $1.00, and no submission failed.
FaultFree(i) ==
  /\ ConfiguredOrder # <<>>
  /\ stripeSeen[i] \in {-1, 100}
  /\ results[i].failed_transfers = 0
  /\ scanErrors[i] = <<>>

\* C20: with two sources holding 30 and 45 and an available processor balance
\* of 100, an invocation computes total 75, pays out exactly 75 through exactly
\* one processor, zeroes both sources and records at least 4 audit entries.
C20_ScenarioA ==
  \A i \in Inv :
    (pc[i] = "done" /\ FaultFree(i)
       /\ ledger0[<<"treasury_accounts", 1>>] = <<30>> /\ ledger0[AppRow] = <<45>>
       /\ Len(sources[i]) = 2) =>
      /\ totalAmount[i] = 75
      /\ Len(PayoutsOf(i)) = 1
      /\ PaidBy(i) = 75
      /\ zeroed[i] = { <<"treasury_accounts", 1>>, AppRow }
      /\ Len(auditLog[i]) >= 4

\* Every read of the scan failed: the datastore was unreachable.
Unreachable(i) == \A k \in 1..Len(USD_BALANCE_TABLES) : Failed(i, k)

\* C23: an invocation of comprehensive-usd-aggregator whose every table read
\* failed attempts no payment processor and pays nothing, and when it has
\* returned its response reports no success and carries the execution_id.
C23_UnreachableFailsFast ==
  \A i \in Inv :
    Unreachable(i) =>
      /\ results[i].providers_attempted = <<>>
      /\ PayoutsOf(i) = <<>>
      /\ zeroed[i] = {}
      /\ pc[i] \in {"scan", "save_no_funds", "done"}
      /\ pc[i] = "done" => /\ ~response[i].success
                           /\ response[i].status >= 400
                           /\ response[i].execution_id

\* An invocation returned after failing to read tables that hold funds.
C23_Witness ==
  \E i \in Inv :
    /\ Unreachable(i) /\ pc[i] = "done"
    /\ \E k \in 1..Len(USD_BALANCE_TABLES) : HeldBy(k) > 0

\* The records of source n of invocation i, as the scan returned them.
RecordsOf(i, n) ==
  { sources[i][n].records[r] : r \in 1..Len(sources[i][n].records) }

\* C24: zeroOutAllSourceBalances logs one outcome per source, in the order of
\* the sources, a source logged SOURCE_ZEROED has had every one of its records
\* set to 0 by this invocation, and a source logged ZERO_FAILED has not.
C24_ConsumptionLoggedTruthfully ==
  \A i \in Inv :
    LET z == SelectSeq(auditLog[i],
                       LAMBDA e : e.action \in {"SOURCE_ZEROED", "ZERO_FAILED"})
    IN  /\ Len(z) <= Len(sources[i])
        /\ \A n \in 1..Len(z) :
             /\ z[n].who = sources[i][n].table
             /\ z[n].action = "SOURCE_ZEROED" <=> RecordsOf(i, n) \subseteq zeroed[i]

\* The position of a table in the configuration.
TableIndex(table) ==
  CHOOSE k \in 1..Len(USD_BALANCE_TABLES) : USD_BALANCE_TABLES[k].table = table

InStaticOrder(b) ==
  \A m, n \in 1..Len(b) : m < n => TableIndex(b[m][1]) < TableIndex(b[n][1])

A2SPaid(j) == Len(stripeXfers[j]) * a2s[j].amountToTransferCents

\* The ledger value consumed since the start.
A2SConsumed == AggregateCents(a2sLedger0) - AggregateCents(a2sLedger)

\* C6: the value of the ledger records an invocation consumes never exceeds
\* what was paid out; no payout is made for less than the scanned total by
\* comprehensive-usd-aggregator, and aggregate_usd_to_stripe, which pays out
\* min(aggregate, available), consumes no record.
C6_ConsumedAtMostPaid ==
  /\ \A i \in Inv :
       /\ consumedValue[i] <= PaidBy(i)
       /\ \A k \in 1..Len(PayoutsOf(i)) : PayoutsOf(i)[k].amount = totalAmount[i]
  /\ A2SConsumed = 0
  /\ \A j \in A2SInv :
       stripeXfers[j] # <<>> =>
         a2s[j].amountToTransferCents <= a2s[j].availableUSD

\* An invocation read a Stripe balance below its scanned total, was paid out
\* by another processor and zeroed its sources.
C6_Witness ==
  \E i \in Inv : /\ pc[i] = "done"
                 /\ stripeSeen[i] >= 0
                 /\ stripeSeen[i] < totalAmount[i]
                 /\ PayoutsOf(i) # <<>>
                 /\ consumedValue[i] = totalAmount[i]

\* C7: resubmitting the payout of one execution never creates two distinct
\* external payouts.
C7_OnePayoutPerExecution ==
  \A j \in A2SInv : Len(stripeXfers[j]) <= 1

\* C9: an invocation that follows a completed transfer, over unchanged source
\* tables, does not transfer the same funds again: together the two move no
\* more than the tables hold.
C9_FollowingInvocationTransfersNothingTwice ==
  \A k \in A2SInv : \A j \in a2s[k].after :
    (a2s[j].response.status = 200 /\ stripeXfers[j] # <<>> /\ stripeXfers[k] # <<>>) =>
      a2s[j].amountToTransferCents + a2s[k].amountToTransferCents
        <= AggregateCents(a2sLedger0)

\* The direct bank transfer block ran: it pushes 'bank_direct' and hands
\* amountCents to stripe.transfers.create.
BankSubmitted(i) ==
  \E k \in 1..Len(results[i].providers_attempted) :
    results[i].providers_attempted[k] = "bank_direct"

\* C11: every amount an invocation submits to a processor is non-negative and
\* at most min(scanned total, the available balance the invocation read from
\* that processor).
C11_PayoutWithinAvailable ==
  /\ \A i \in Inv :
       /\ \A k \in 1..Len(PayoutsOf(i)) :
            /\ PayoutsOf(i)[k].amount >= 0
            /\ PayoutsOf(i)[k].amount <= totalAmount[i]
            /\ PayoutsOf(i)[k].provider = "stripe" =>
                 PayoutsOf(i)[k].amount <= stripeSeen[i]
       /\ (BankSubmitted(i) /\ stripeSeen[i] >= 0) =>
            totalAmount[i] <= Min(totalAmount[i], stripeSeen[i])
  /\ \A j \in A2SInv :
       a2s[j].pc \in {"attempt", "succeeded", "failed"} =>
         /\ a2s[j].amountToTransferCents >= 0
         /\ a2s[j].amountToTransferCents
              <= Min(a2s[j].aggregateCents, a2s[j].availableUSD)

\* The stripe.transfers.create calls invocation j has made.
Submissions(j) ==
  IF a2s[j].pc = "attempt" THEN a2s[j].attempt
  ELSE IF a2s[j].transfer > 0 \/ a2s[j].lastError # NoError THEN a2s[j].attempt + 1
  ELSE 0

LoopExited(j) ==
  a2s[j].transfer > 0 \/ (a2s[j].lastError # NoError /\ a2s[j].pc # "attempt")

\* C13: the retry loop ends whatever errors the processor returns, after at
\* most 1 + MAX_RETRIES submissions; the waits are 1000, 2000, 4000 ms, the
\* k-th being INITIAL_DELAY * 2^(k-1), one before each retry and none after
\* the last attempt.
C13_BoundedBackoff ==
  /\ [](\A j \in A2SInv :
          /\ Submissions(j) <= 1 + MAX_RETRIES
          /\ Len(a2s[j].slept) <= MAX_RETRIES
          /\ \A k \in 1..Len(a2s[j].slept) :
               /\ a2s[j].slept[k] = INITIAL_DELAY * 2^(k - 1)
               /\ a2s[j].slept[k] = <<1000, 2000, 4000>>[k]
          /\ a2s[j].pc = "attempt" => Len(a2s[j].slept) = Submissions(j)
          /\ LoopExited(j) => Len(a2s[j].slept) = Submissions(j) - 1)
  /\ \A j \in A2SInv : (a2s[j].pc = "attempt") ~> (a2s[j].pc # "attempt")

\* An invocation gave up after four submissions and three waits.
C13_Witness ==
  \E j \in A2SInv : /\ a2s[j].pc = "failed"
                    /\ Submissions(j) = 1 + MAX_RETRIES
                    /\ a2s[j].slept = <<1000, 2000, 4000>>

\* The two classes of processor errors: terminal (insufficient funds, invalid
\* account, authentication failure, invalid request) and retryable (rate
\* limit, lock timeout, temporary unavailability, API connection, API error).
TerminalError(e) ==
  e.code \in {"insufficient_funds", "account_invalid", "authentication_error",
              "invalid_request_error"}
RetryableError(e) ==
  /\ ~TerminalError(e)
  /\ \/ e.code \in {"rate_limit", "lock_timeout", "temporary_unavailable"}
     \/ e.type \in {"api_connection_error", "api_error"}

\* C14: a terminal error ends the attempts at once, with no backoff; a
\* retryable error is followed by a backoff and another submission as long as
\* attempts remain.
C14_ErrorsClassified ==
  [][\A j \in A2SInv :
       (a2s[j].pc = "attempt" /\ a2s'[j].pc # "succeeded" /\ a2s'[j] # a2s[j]) =>
         LET e == a2s'[j].lastError
         IN  /\ e \in StripeErrors
             /\ TerminalError(e) =>
                  /\ a2s'[j].pc = "failed"
                  /\ a2s'[j].slept = a2s[j].slept
             /\ (RetryableError(e) /\ a2s[j].attempt < MAX_RETRIES) =>
                  /\ a2s'[j].pc = "attempt"
                  /\ a2s'[j].attempt = a2s[j].attempt + 1
                  /\ Len(a2s'[j].slept) = Len(a2s[j].slept) + 1
             /\ (RetryableError(e) /\ a2s[j].attempt = MAX_RETRIES) =>
                  a2s'[j].pc = "failed"]_vars

\* An invocation waited after a retryable error, submitted again and was ended
\* by a terminal error.
C14_Witness ==
  \E j \in A2SInv : /\ a2s[j].pc = "failed"
                    /\ TerminalError(a2s[j].lastError)
                    /\ Len(a2s[j].slept) = 1
                    /\ Submissions(j) = 2

\* The autonomous_revenue_transfers rows invocation j inserted; the row's
\* metadata carries j's execution_id.
RowsOf(j) == SelectSeq(xferRows, LAMBDA r : r.by = j)

\* C15: a transfer record in status 'processing' carrying the execution_id is
\* persisted before the invocation's first stripe.transfers.create call; when
\* the insert fails the invocation submits nothing.
C15_RecordBeforeSubmission ==
  /\ [](\A j \in A2SInv :
          (a2s[j].pc = "attempt" \/ Submissions(j) > 0 \/ stripeXfers[j] # <<>>) =>
            RowsOf(j) # <<>>)
  /\ [][\A j \in A2SInv :
          (a2s[j].pc = "insert" /\ a2s'[j].pc = "attempt") =>
            /\ Len(xferRows') = Len(xferRows) + 1
            /\ xferRows'[Len(xferRows')].by = j
            /\ xferRows'[Len(xferRows')].status = "processing"]_vars

\* One invocation's insert failed and it ended without a submission, another
\* one inserted its record and Stripe created its transfer.
C15_Witness ==
  \E j, k \in A2SInv :
    /\ a2s[j].pc = "done" /\ a2s[j].response.status = 500
    /\ a2s[j].amountToTransferCents > 0 /\ a2s[j].lastError = NoError
    /\ RowsOf(j) = <<>> /\ stripeXfers[j] = <<>>
    /\ RowsOf(k) # <<>> /\ stripeXfers[k] # <<>>

\* C16: every invocation of an aggregator that has returned, whether it ended
\* in success, skip or no funds, or failure, returned a body that contains its
\* execution_id.
C16_ResponseCarriesExecutionId ==
  /\ \A i \in Inv : pc[i] = "done" => response[i].execution_id
  /\ \A j \in A2SInv : a2s[j].pc = "done" => a2s[j].response.execution_id # "none"

\* C17: no two invocations, those that start at the same clock reading
\* included, are assigned the same execution_id.
C17_ExecutionIdUnique ==
  \A j, k \in A2SInv :
    (j # k /\ a2s[j].executionId # 0 /\ a2s[k].executionId # 0) =>
      a2s[j].executionId # a2s[k].executionId

\* C30: the status of a row of autonomous_revenue_transfers was last written by the
\* invocation that inserted the row, and an invocation that has returned
\* after inserting its row has left that row in a terminal status.
C30_StatusOnOwnRow ==
  \A k \in 1..Len(xferRows) :
    /\ xferRows[k].setBy = xferRows[k].by
    /\ a2s[xferRows[k].by].pc = "done" => xferRows[k].status # "processing"

\* ===================================================================
\* Properties of comprehensive-stripe-integration
\* ===================================================================
\* C4: updateComplianceRecords marks transactions 'transferred' and sets
\* application_balance to 0 only when a real Stripe payout was created.
C4_ConsumesOnlyAfterRealPayout ==
  (csiMarked # {} \/ csiZeroed \/ csiLog # <<>>) => csiPayouts # <<>>

\* ===================================================================
\* Properties of payout_now
\* ===================================================================
\* The run took the below-minimum branch and has answered.
PnSkipped ==
  /\ pn.pc = "done" /\ pn.env = "ok"
  /\ pn.response.status = 400

\* C21: a payout_now run whose resolved amount is below MIN_PAYOUT_CENTS
\* submits no payout and leaves no row but a 'skipped' one, and that row
\* states the reason, the available balance and the desired amount.
C21_BelowMinimumSkipped ==
  PnSkipped =>
    /\ pn.payoutAmount < MIN_PAYOUT_CENTS
    /\ pnPayouts = <<>>
    /\ Len(pnLog) <= 1
    /\ \A k \in 1..Len(pnLog) :
         /\ pnLog[k].status = "skipped"
         /\ pnLog[k].reason # ""
         /\ pnLog[k].available_usd_cents = <<pn.availableUSD>>
         /\ pnLog[k].desired_cents = <<pn.desiredAmount>>

\* max(0, min(requested, available)), all three in the same unit.
Clamp(requested, available) ==
  IF requested < available
  THEN (IF requested > 0 THEN requested ELSE 0)
  ELSE (IF available > 0 THEN available ELSE 0)

\* C22: the amount payout_now resolves is max(0, min(requested, available)),
\* requested being the caller's amount rounded down to whole cents when one
\* is given and the available balance otherwise; it lies in [0, available],
\* and it is the amount of every payout the run submits.
C22_AmountIsClampedFloor ==
  LET requested == IF pn.amount_cents # <<>> THEN pn.amount_cents[1] \div 2
                   ELSE pn.availableUSD
  IN  /\ pn.payoutAmount = Clamp(requested, pn.availableUSD)
      /\ pn.payoutAmount >= 0 /\ pn.payoutAmount <= pn.availableUSD
      /\ \A k \in 1..Len(pnPayouts) : pnPayouts[k] = pn.payoutAmount

\* C22 (as stated): the amount is max(0, min(requested, available)) of the
\* caller's amount as supplied.  Amounts are compared in half cents.
C22_AmountIsClampedRequest ==
  LET requested == IF pn.amount_cents # <<>> THEN pn.amount_cents[1]
                   ELSE 2 * pn.availableUSD
  IN  pn.pc \in {"skip", "payout", "log"} =>
        2 * pn.payoutAmount = Clamp(requested, 2 * pn.availableUSD)

\* A payout was submitted for a request above the available balance.
C22_Witness ==
  /\ pnPayouts # <<>> /\ pn.amount_cents # <<>>
  /\ pn.amount_cents[1] \div 2 > pn.availableUSD
  /\ pnPayouts[1] = pn.availableUSD

\* ===================================================================
\* Properties of the writers of a balance row
\* ===================================================================
\* What the writers of one function that reported success added.
AddedBy(kind) ==
  LET f == [w \in Writers |->
              IF bw[w].kind = kind /\ bw[w].status = 200 THEN bw[w].amount ELSE 0]
  IN  SetSum(Writers, f)

\* C26: once every writer has returned, none of them having met a datastore
\* error, the operating treasury balance is its initial value plus the
\* amounts of the add_real_money calls that reported success, and
\* application_balance is its initial value plus the amounts of the revenue
\* aggregations that reported success.
C26_NoLostUpdate ==
  (\A w \in Writers : bw[w].pc = "done" /\ ~bw[w].faulted) =>
    /\ SeqSum(bwStore.treasury) = SeqSum(bwStore0.treasury) + AddedBy("add_real_money")
    /\ NumberOr0(bwStore.app) = NumberOr0(bwStore0.app) + AddedBy("revenue")

\* ===================================================================
\* Properties of automated-full-transfer-scheduler
\* ===================================================================
Scheduled(scheduleType) == scheduleType \in {"hourly", "daily", "weekly"}

\* C27: of two aggregator runs that invocations of one scheduled type
\* triggered after a successful lookup of the last run, and that both
\* completed, the later one starts a full interval or more after the earlier
\* one was recorded.
C27_OneRunPerInterval ==
  \A a, b \in 1..Len(schLog) :
    LET i == schLog[a].by
        j == schLog[b].by
    IN  ( /\ a < b
          /\ schLog[a].status = "completed" /\ schLog[b].status = "completed"
          /\ sch[i].schedule_type = sch[j].schedule_type
          /\ Scheduled(sch[i].schedule_type)
          /\ sch[i].lookup = "ok" /\ sch[j].lookup = "ok" )
        => sch[j].now - schLog[a].execution_time >= Interval(sch[j].schedule_type)

\* C28: an invocation whose schedule_type is none of manual, hourly, daily
\* and weekly never calls the aggregator, and a manual one that has passed
\* the gate always does.
C28_UnknownTypeNeverRuns ==
  /\ \A r \in schRuns : r.schedule_type \in {"manual", "hourly", "daily", "weekly"}
  /\ \A i \in SchInv :
       (sch[i].pc = "done" /\ sch[i].schedule_type = "manual") =>
         \E r \in schRuns : r.by = i

SchRowsOf(i) == SelectSeq(schLog, LAMBDA r : r.by = i)

TreasuryBalance(store) ==
  IF store.treasury = <<>> THEN 0 ELSE store.treasury[1].current_balance

\* The funds a store holds: application_balance, earnings and treasury.
Funds(store) ==
  NumberOr0(store.app) + EarningsTotal(store.earnings) + TreasuryBalance(store)

\* The last request was `action` and was answered with `status`; nothing
\* has happened since.
TmAnswered(action, status) ==
  tm.pc = "idle" /\ tm.action = action /\ tm.status = status

\* C31: after a consolidate_all that succeeded the treasury balance is what it
\* was plus the positive application balance and the earnings amounts,
\* application_balance is 0 (or absent) and no earnings row is left; a
\* consolidate_all that directly follows a successful one changes nothing.
C31_ConsolidatesOnce ==
  TmAnswered("consolidate_all", 200) =>
    LET before == tm.before[1]
        app    == NumberOr0(before.app)
    IN  /\ TreasuryBalance(tmStore) =
             TreasuryBalance(before) + (IF app > 0 THEN app ELSE 0)
               + EarningsTotal(before.earnings)
        /\ NumberOr0(tmStore.app) = 0
        /\ DOMAIN tmStore.earnings = {}
        /\ tm.prev = [action |-> "consolidate_all", status |-> 200] =>
             tmStore = before

\* A consolidate_all that moved an application balance and two earnings
\* rows was followed by a second one.
C31_Witness ==
  /\ TmAnswered("consolidate_all", 200)
  /\ tm.prev = [action |-> "consolidate_all", status |-> 200]
  /\ TreasuryBalance(tmStore) = 100 + 40 + 5 + 10
  /\ tmStore.movements = <<55>>

\* C35: a consolidate_all that failed left the sum of application_balance,
\* the earnings amounts and the treasury balance as it found it.
C35_FailedConsolidateLosesNothing ==
  TmAnswered("consolidate_all", 500) => Funds(tmStore) = Funds(tm.before[1])

\* C36: between requests, a treasury account created by these operations
\* has current_balance = available_balance = the sum of its deposits in
\* treasury_movements.
C36_BalanceMatchesMovements ==
  (tm.pc = "idle" /\ tm.fresh /\ tmStore.treasury # <<>>) =>
    /\ tmStore.treasury[1].current_balance = tmStore.treasury[1].available_balance
    /\ tmStore.treasury[1].current_balance = SeqSum(tmStore.movements)

\* ===================================================================
\* Properties of the production Stripe payout flow
\* ===================================================================
\* C32: every transaction an invocation that could read both tables marked
\* 'transferred' was among the rows whose amounts it summed, and an
\* application balance it reset to 0 was the balance it had added to the sum.
C32_ConsumesWhatWasPaid ==
  ~ppInv.readFailed =>
    /\ ppInv.marked \subseteq ppInv.included
    /\ ppInv.zeroed # <<>> => NumberOr0(ppInv.zeroed) = ppInv.balance_portion

\* ===================================================================
\* Properties of the fix-failed-transfers workflow
\* ===================================================================
\* The transfer is not in the hands of the running loop.
FxAtRest(t) == fx.queue = <<>> \/ Head(fx.queue).id # t

C34_OneCorrectivePayout ==
  \A t \in Transfers : fxLog[t].created <= 1

\* ===================================================================
\* Properties of ai-content-api
\* ===================================================================
AcceptedRequests == { r \in Requests : ak[r].pc \in {"increment", "accepted"} }

\* C37: for a key with a usage_limit whose usage_count updates were all
\* applied, the requests accepted under the key are at most usage_limit,
\* usage_count is their number once every increment is written, and a
\* request answered 429 was read at or above the limit.
C37_UsageWithinLimit ==
  (NumberOr0(akKey.usage_limit) # 0 /\ \A r \in Requests : ~ak[r].lost) =>
    /\ Cardinality(AcceptedRequests) <= NumberOr0(akKey.usage_limit)
    /\ (\A r \in Requests : ak[r].pc # "increment") =>
         akKey.usage_count = Cardinality(AcceptedRequests)
    /\ \A r \in Requests :
         ak[r].status = 429 =>
           ak[r].keyData[1].usage_count >= NumberOr0(akKey.usage_limit)

\* ===================================================================
\* Properties of the worker manager
\* ===================================================================
\* C38: the value the manager wrote to current_workers, and the row's
\* current_workers, are at least 1 and at most max_workers.
C38_WorkersWithinPool ==
  /\ wp.written # <<>> =>
       (1 <= wp.written[1] /\ wp.written[1] <= wpStore.max_workers)
  /\ 1 <= wpStore.current_workers
  /\ wpStore.current_workers <= wpStore.max_workers

\* A scale-down of a pool of 2 workers was written as 1, not as 0.
C38_Witness ==
  /\ wp.last = "down" /\ wp.before = 2 /\ wp.written = <<1>>
  /\ wpStore.max_workers = 2 /\ wpStore.current_workers = 1

\* ===================================================================
\* Properties of autonomous-revenue-engine
\* ===================================================================
\* C39: every payout submitted followed a read of an available balance of at
\* least $1.00 and of an enabled autopilot_config row in the same
\* invocation, and its amount is positive and at most that balance; an
\* invocation that read less, or found no enabled row, is not at the payout.
C39_PayoutOnlyWhenFundedAndEnabled ==
  /\ \A k \in 1..Len(arePayouts) :
       /\ arePayouts[k].available >= ENGINE_MIN_CENTS
       /\ arePayouts[k].enabled = 1
       /\ arePayouts[k].amount <= arePayouts[k].available
       /\ arePayouts[k].amount > 0
  /\ are.pc \in {"payout", "log"} =>
       (are.stripe_balance >= ENGINE_MIN_CENTS /\ are.enabled = 1)
  /\ are.pc = "config" => are.stripe_balance >= ENGINE_MIN_CENTS

\* A payout of $1.14 was created from an available balance of $1.15, and a
\* later invocation with autopilot disabled submitted none.
C39_Witness ==
  /\ Len(arePayouts) = 1
  /\ arePayouts[1].available = 115 /\ arePayouts[1].amount = 114
  /\ arePayouts[1].created
  /\ are.runs = 2 /\ areConfig = 0 /\ are.stripe_balance = 250

====
